---- MODULE Spec2Model ----
(***************************************************************************)
(* Model of ext/libstrawberry-tagreader/tagreadertaglib.cpp: the TagLib    *)
(* backed tag reader / writer of Strawberry.                               *)
(*                                                                         *)
(* The file system maps a path to a file; a file carries what TagLib       *)
(* exposes for it (its concrete File class, the generic tag, the audio     *)
(* properties and the format specific tag containers).  Every public       *)
(* operation of TagReaderTagLib is one action.  Text is kept as strings    *)
(* and converted character by character; a rating (a float in the code)    *)
(* is kept in hundredths, so 0.25 is 25 and 1.0 is 100.                    *)
(* The MusicBrainz / AcoustID identifier fields are copied through by the  *)
(* code one by one and are left out of the record.                         *)
(***************************************************************************)
EXTENDS Integers, Sequences, FiniteSets, TLC

VARIABLES
  fs,        \* path -> file (the files that exist on disk)
  song,      \* the record the last operation filled (ReadFile), else fresh
  art,       \* the buffer the last operation filled (LoadEmbeddedArt), else empty
  op,        \* the last operation: its name, path and arguments
  result,    \* the Result the last operation returned
  opened,    \* how many file handles the last operation opened
  live,      \* file handles still open after the last operation returned
  saves,     \* how many operations have changed the file so far
  saved,     \* what the calls of save() in the last operation returned, in order
  calls      \* caller -> the call it has under way, when callers run side by side

vars == <<fs, song, art, op, result, opened, live, saves, saved, calls>>

----------------------------------------------------------------------------
(* Bounds of the model.                                                    *)

\* playcounts written and stored range over 0..MaxPlaycount
MaxPlaycount == 2
\* most frames of one description in an initial ID3v2 tag
MaxDup == 2
\* most values an ASF attribute is let grow to
MaxAttr == 2
\* the operations that change the file are followed MaxSaves deep
MaxSaves == 2

----------------------------------------------------------------------------
(* Text: QString / TagLib::String conversions, character by character.     *)

Min(a, b) == IF a < b THEN a ELSE b

Char(s, i) == SubSeq(s, i, i)

Digits == "0123456789"

IsDigit(c) == \E d \in 1..10 : Char(Digits, d) = c

DigitVal(c) == (CHOOSE d \in 1..10 : Char(Digits, d) = c) - 1

IsSpace(c) == c = " "

\* QString::left(n)
Left(s, n) == SubSeq(s, 1, Min(n, Len(s)))

\* QString::trimmed()
RECURSIVE TrimLeft(_)
TrimLeft(s) ==
  IF Len(s) > 0 /\ IsSpace(Char(s, 1)) THEN TrimLeft(SubSeq(s, 2, Len(s))) ELSE s

RECURSIVE TrimRight(_)
TrimRight(s) ==
  IF Len(s) > 0 /\ IsSpace(Char(s, Len(s))) THEN TrimRight(SubSeq(s, 1, Len(s) - 1)) ELSE s

Trimmed(s) == TrimRight(TrimLeft(s))

\* QString::indexOf(ch): the 0-based position of the first ch, or -1
IndexOf(s, ch) ==
  IF \E i \in 1..Len(s) : Char(s, i) = ch
  THEN (CHOOSE i \in 1..Len(s) : Char(s, i) = ch /\ \A j \in 1..(i - 1) : Char(s, j) # ch) - 1
  ELSE -1

\* the value of a run of digits
RECURSIVE DigitsValue(_)
DigitsValue(s) ==
  IF Len(s) = 0 THEN 0
  ELSE 10 * DigitsValue(SubSeq(s, 1, Len(s) - 1)) + DigitVal(Char(s, Len(s)))

AllDigits(s) == Len(s) > 0 /\ \A i \in 1..Len(s) : IsDigit(Char(s, i))

\* the longest prefix of s made of digits
RECURSIVE DigitPrefix(_)
DigitPrefix(s) ==
  IF Len(s) > 0 /\ IsDigit(Char(s, 1))
  THEN Char(s, 1) \o DigitPrefix(SubSeq(s, 2, Len(s)))
  ELSE ""

\* QString::toInt(): surrounding white space is skipped, the whole rest must
\* be an optionally signed decimal number, anything else gives 0
QToInt(s) ==
  LET unsigned(body) == IF AllDigits(body) THEN DigitsValue(body) ELSE 0
      signed(t) ==
        IF Len(t) > 0 /\ Char(t, 1) = "-" THEN 0 - unsigned(SubSeq(t, 2, Len(t)))
        ELSE IF Len(t) > 0 /\ Char(t, 1) = "+" THEN unsigned(SubSeq(t, 2, Len(t)))
        ELSE unsigned(t)
  IN signed(Trimmed(s))

\* TagLib::String::toInt(): the leading number of the string (as strtol)
TToInt(s) ==
  LET unsigned(body) == DigitsValue(DigitPrefix(body))
      signed(t) ==
        IF Len(t) > 0 /\ Char(t, 1) = "-" THEN 0 - unsigned(SubSeq(t, 2, Len(t)))
        ELSE IF Len(t) > 0 /\ Char(t, 1) = "+" THEN unsigned(SubSeq(t, 2, Len(t)))
        ELSE unsigned(t)
  IN signed(TrimLeft(s))

\* QString::number(int) / TagLib::String::number(int)
RECURSIVE NatNumber(_)
NatNumber(n) ==
  IF n < 10 THEN Char(Digits, n + 1)
  ELSE NatNumber(n \div 10) \o Char(Digits, (n % 10) + 1)

Number(n) == IF n < 0 THEN "-" \o NatNumber(0 - n) ELSE NatNumber(n)

\* QString::number(float), a rating in hundredths: "0", "0.1", "0.25", "1"
FloatNumber(r) ==
  LET a == IF r < 0 THEN 0 - r ELSE r
      whole == a \div 100
      frac == a % 100
      fracText == IF frac = 0 THEN ""
                  ELSE IF frac % 10 = 0 THEN "." \o NatNumber(frac \div 10)
                  ELSE "." \o NatNumber(frac \div 10) \o NatNumber(frac % 10)
  IN (IF r < 0 THEN "-" ELSE "") \o NatNumber(whole) \o fracText

\* QString::toFloat(), in hundredths: an optionally signed decimal number
\* with at most two decimals here; anything else gives 0
QToFloat(s) ==
  LET hundredths(frac) ==
        IF Len(frac) = 0 THEN 0
        ELSE IF Len(frac) = 1 THEN 10 * DigitsValue(frac)
        ELSE DigitsValue(Left(frac, 2))
      value(whole, frac) ==
        IF /\ (Len(whole) > 0 \/ Len(frac) > 0)
           /\ (Len(whole) = 0 \/ AllDigits(whole))
           /\ (Len(frac) = 0 \/ AllDigits(frac))
        THEN 100 * DigitsValue(whole) + hundredths(frac)
        ELSE 0
      split(body, dot) ==
        IF dot = -1 THEN value(body, "")
        ELSE value(SubSeq(body, 1, dot), SubSeq(body, dot + 2, Len(body)))
      unsigned(body) == split(body, IndexOf(body, "."))
      signed(t) ==
        IF Len(t) > 0 /\ Char(t, 1) = "-" THEN 0 - unsigned(SubSeq(t, 2, Len(t)))
        ELSE IF Len(t) > 0 /\ Char(t, 1) = "+" THEN unsigned(SubSeq(t, 2, Len(t)))
        ELSE unsigned(t)
  IN signed(Trimmed(s))

\* lower case of the letters the compared names use
Upper == "ABCDEFGHIJKLMNOPQRSTUVWXYZ"

Lower == "abcdefghijklmnopqrstuvwxyz"

LowerChar(c) ==
  IF \E i \in 1..26 : Char(Upper, i) = c
  THEN Char(Lower, CHOOSE i \in 1..26 : Char(Upper, i) = c)
  ELSE c

RECURSIVE ToLower(_)
ToLower(s) ==
  IF Len(s) = 0 THEN "" ELSE LowerChar(Char(s, 1)) \o ToLower(SubSeq(s, 2, Len(s)))

\* TagLib::String::upper(), as the APE tag uses it on item keys
UpperChar(c) ==
  IF \E i \in 1..26 : Char(Lower, i) = c
  THEN Char(Upper, CHOOSE i \in 1..26 : Char(Lower, i) = c)
  ELSE c

RECURSIVE ToUpper(_)
ToUpper(s) ==
  IF Len(s) = 0 THEN "" ELSE UpperChar(Char(s, 1)) \o ToUpper(SubSeq(s, 2, Len(s)))

\* QFileInfo::fileName(): what follows the last '/'
RECURSIVE BaseName(_)
BaseName(p) ==
  LET i == IndexOf(p, "/")
  IN IF i = -1 THEN p ELSE BaseName(SubSeq(p, i + 2, Len(p)))

\* TagLib::StringList::toString(separator)
RECURSIVE Join(_, _)
Join(list, sep) ==
  IF Len(list) = 0 THEN ""
  ELSE IF Len(list) = 1 THEN list[1]
  ELSE list[1] \o sep \o Join(Tail(list), sep)

(* Encodings.  A std::string of the record is UTF-8 bytes; a TagLib::String *)
(* or a QString is a run of code points.  Of the characters beyond ASCII    *)
(* the model keeps U+03A9: "@" in a run of code points, the two bytes "{"   *)
(* "}" in UTF-8.  The code points "{" and "}" stand for the Latin-1         *)
(* characters of those two byte values; UTF-8 writes them with the lead     *)
(* byte "[".                                                                *)

\* TagLib::String(bytes, UTF8) / QString::fromStdString
RECURSIVE Utf8Decode(_)
Utf8Decode(bytes) ==
  IF Len(bytes) = 0 THEN ""
  ELSE IF Len(bytes) >= 2 /\ SubSeq(bytes, 1, 2) = "{}"
  THEN "@" \o Utf8Decode(SubSeq(bytes, 3, Len(bytes)))
  ELSE IF Len(bytes) >= 2 /\ SubSeq(bytes, 1, 2) \in {"[{", "[}"}
  THEN Char(bytes, 2) \o Utf8Decode(SubSeq(bytes, 3, Len(bytes)))
  ELSE IF Char(bytes, 1) \in {"{", "}", "["}
  THEN "?" \o Utf8Decode(SubSeq(bytes, 2, Len(bytes)))
  ELSE Char(bytes, 1) \o Utf8Decode(SubSeq(bytes, 2, Len(bytes)))

\* TagLib::String::to8Bit(true) / QString::toUtf8
RECURSIVE Utf8Encode(_)
Utf8Encode(text) ==
  IF Len(text) = 0 THEN ""
  ELSE IF Char(text, 1) = "@" THEN "{}" \o Utf8Encode(SubSeq(text, 2, Len(text)))
  ELSE IF Char(text, 1) \in {"{", "}"}
  THEN "[" \o Char(text, 1) \o Utf8Encode(SubSeq(text, 2, Len(text)))
  ELSE Char(text, 1) \o Utf8Encode(SubSeq(text, 2, Len(text)))

\* StdStringToTagLibString (tagreadertaglib.h)
StdStringToTagLibString(bytes) == Utf8Decode(bytes)

\* AssignTagLibStringToStdString (tagreadertaglib.h): the value assigned
AssignTagLibStringToStdString(text) == Utf8Encode(text)

----------------------------------------------------------------------------
(* Key -> value maps (TagLib::Map): a function whose domain is the keys.   *)

NoItems == [k \in {} |-> 0]

Has(m, k) == k \in DOMAIN m

Put(m, k, v) == [x \in (DOMAIN m) \cup {k} |-> IF x = k THEN v ELSE m[x]]

Del(m, k) == [x \in (DOMAIN m) \ {k} |-> m[x]]

\* the elements of a sequence that satisfy a test, in order
RECURSIVE SelectFrames(_, _)
SelectFrames(frames, id) ==
  IF Len(frames) = 0 THEN <<>>
  ELSE IF frames[1].id = id THEN <<frames[1]>> \o SelectFrames(Tail(frames), id)
  ELSE SelectFrames(Tail(frames), id)

RECURSIVE RemoveFrames(_, _)
RemoveFrames(frames, id) ==
  IF Len(frames) = 0 THEN <<>>
  ELSE IF frames[1].id = id THEN RemoveFrames(Tail(frames), id)
  ELSE <<frames[1]>> \o RemoveFrames(Tail(frames), id)

----------------------------------------------------------------------------
(* Results and file types.                                                 *)

Success == "Success"

FilenameMissing == "FilenameMissing"

FileDoesNotExist == "FileDoesNotExist"

FileOpenError == "FileOpenError"

FileSaveError == "FileSaveError"

Unsupported == "Unsupported"

UNKNOWN == "UNKNOWN"

\* The concrete TagLib::File classes FileRef can resolve a file to.  "Other"
\* stands for a class GuessFileType has no test for.
XiphTagClasses == {"OggFLAC", "OggVorbis", "OggOpus", "OggSpeex"}

KnownClasses ==
  {"WAV", "FLAC", "WavPack", "OggFLAC", "OggVorbis", "OggOpus", "OggSpeex", "MPEG",
   "MP4", "ASF", "AIFF", "MPC", "TrueAudio", "APE", "Mod", "S3M", "XM", "IT"}

\* the classes compiled in only with HAVE_TAGLIB_DSFFILE / HAVE_TAGLIB_DSDIFFFILE
OptionalClasses == {"DSF", "DSDIFF"}

\* a prober that lacks the last test and the two optional ones
GuessWithoutIT(file) ==
  CASE file.cls = "WavPack" -> "WAVPACK"
    [] file.cls \in {"OggFLAC", "OggVorbis", "OggOpus", "OggSpeex", "TrueAudio"} -> ToUpper(file.cls)
    [] file.cls \in KnownClasses \ {"IT"} -> file.cls
    [] OTHER -> UNKNOWN

\* TagReaderTagLib::GuessFileType: one dynamic_cast test per class, in order.
\* A file has exactly one concrete class, so the first test that matches is
\* the test of its own class.
GuessFileType(file) ==
  CASE file.cls = "WAV" -> "WAV"
    [] file.cls = "FLAC" -> "FLAC"
    [] file.cls = "WavPack" -> "WAVPACK"
    [] file.cls = "OggFLAC" -> "OGGFLAC"
    [] file.cls = "OggVorbis" -> "OGGVORBIS"
    [] file.cls = "OggOpus" -> "OGGOPUS"
    [] file.cls = "OggSpeex" -> "OGGSPEEX"
    [] file.cls = "MPEG" -> "MPEG"
    [] file.cls = "MP4" -> "MP4"
    [] file.cls = "ASF" -> "ASF"
    [] file.cls = "AIFF" -> "AIFF"
    [] file.cls = "MPC" -> "MPC"
    [] file.cls = "TrueAudio" -> "TRUEAUDIO"
    [] file.cls = "APE" -> "APE"
    [] file.cls = "Mod" -> "MOD"
    [] file.cls = "S3M" -> "S3M"
    [] file.cls = "XM" -> "XM"
    [] file.cls = "IT" -> "IT"
    [] file.cls = "DSF" /\ file.haveOptional -> "DSF"
    [] file.cls = "DSDIFF" /\ file.haveOptional -> "DSDIFF"
    [] OTHER -> UNKNOWN

----------------------------------------------------------------------------
(* The record: spb::tagreader::SongMetadata as constructed by the caller.  *)

FreshSong ==
  [valid |-> FALSE, title |-> "", artist |-> "", album |-> "", albumartist |-> "",
   genre |-> "", composer |-> "", performer |-> "", grouping |-> "", comment |-> "",
   lyrics |-> "", year |-> 0, originalyear |-> 0, track |-> 0, disc |-> 0,
   bitrate |-> 0, samplerate |-> 0, bitdepth |-> 0, length |-> 0, filesize |-> 0,
   playcount |-> 0, rating |-> 0, lastplayed |-> 0, compilation |-> FALSE,
   art_embedded |-> FALSE, filetype |-> UNKNOWN, basefilename |-> "", url |-> "",
   mtime |-> 0, ctime |-> 0, lastseen |-> 0]

----------------------------------------------------------------------------
(* ReadFile.                                                               *)

\* a raw pointer in the place of the unique_ptr: nothing closes the handle
Leak(handles) == handles

\* std::unique_ptr<TagLib::FileRef>: leaving the scope deletes the FileRef,
\* which closes the handle
Release(handles) == handles - 1

\* what an operation hands back: its Result, the record, the handle counts
ReadOutcome(res, sng, nOpened, nLive) ==
  [result |-> res, song |-> sng, opened |-> nOpened, live |-> nLive]

\* QString::compare(QLatin1String) == 0: Qt::CaseSensitive is the default
QCompareEqual(a, b) == a = b

\* the picture loop of ReadFile: a front cover with data in it
HasFrontCover(pics) ==
  \E i \in 1..Len(pics) : pics[i].type = "FrontCover" /\ Len(pics[i].data) > 0

\* a ParseOggTag that reads GROUPING before CONTENT GROUP
ParseOggTagGroupingFirst(map, st) ==
  LET Text(key) == AssignTagLibStringToStdString(map[key][1])
      composer(s) == IF Has(map, "COMPOSER") THEN [s EXCEPT !.composer = Text("COMPOSER")] ELSE s
      performer(s) == IF Has(map, "PERFORMER") THEN [s EXCEPT !.performer = Text("PERFORMER")] ELSE s
      contentGroup(s) == IF Has(map, "CONTENT GROUP") THEN [s EXCEPT !.grouping = Text("CONTENT GROUP")] ELSE s
      grouping(s) == IF Has(map, "GROUPING") THEN [s EXCEPT !.grouping = Text("GROUPING")] ELSE s
      albumartist(s) ==
        IF Has(map, "ALBUMARTIST") THEN [s EXCEPT !.albumartist = Text("ALBUMARTIST")]
        ELSE IF Has(map, "ALBUM ARTIST") THEN [s EXCEPT !.albumartist = Text("ALBUM ARTIST")]
        ELSE s
      originalyear(s) ==
        IF Has(map, "ORIGINALDATE")
        THEN [s EXCEPT !.originalyear = QToInt(Left(map["ORIGINALDATE"][1], 4))]
        ELSE IF Has(map, "ORIGINALYEAR")
        THEN [s EXCEPT !.originalyear = QToInt(map["ORIGINALYEAR"][1])]
        ELSE s
      disc == IF Has(map, "DISCNUMBER") THEN Trimmed(map["DISCNUMBER"][1]) ELSE st.disc
      comp == IF Has(map, "COMPILATION") THEN Trimmed(map["COMPILATION"][1]) ELSE st.compilation
      coverart(s) == IF Has(map, "COVERART") THEN [s EXCEPT !.art_embedded = TRUE] ELSE s
      picture(s) == IF Has(map, "METADATA_BLOCK_PICTURE") THEN [s EXCEPT !.art_embedded = TRUE] ELSE s
      \* set_playcount(static_cast<uint>(playcount)) keeps the 32 bits of the
      \* int; the record holds them here as the signed number they spell
      playcount(s) ==
        IF Has(map, "FMPS_PLAYCOUNT") /\ s.playcount <= 0
        THEN [s EXCEPT !.playcount = QToInt(Trimmed(map["FMPS_PLAYCOUNT"][1]))]
        ELSE s
      rating(s) ==
        IF Has(map, "FMPS_RATING") /\ s.rating <= 0
        THEN [s EXCEPT !.rating = QToFloat(Trimmed(map["FMPS_RATING"][1]))]
        ELSE s
      lyrics(s) ==
        IF Has(map, "LYRICS") THEN [s EXCEPT !.lyrics = Text("LYRICS")]
        ELSE IF Has(map, "UNSYNCEDLYRICS") THEN [s EXCEPT !.lyrics = Text("UNSYNCEDLYRICS")]
        ELSE s
  IN [disc |-> disc, compilation |-> comp,
      song |-> lyrics(rating(playcount(picture(coverart(originalyear(albumartist(
                 contentGroup(grouping(performer(composer(st.song)))))))))))]

\* TagReaderTagLib::ParseOggTag; st is [disc, compilation, song]
ParseOggTag(map, st) ==
  LET Text(key) == AssignTagLibStringToStdString(map[key][1])
      composer(s) == IF Has(map, "COMPOSER") THEN [s EXCEPT !.composer = Text("COMPOSER")] ELSE s
      performer(s) == IF Has(map, "PERFORMER") THEN [s EXCEPT !.performer = Text("PERFORMER")] ELSE s
      contentGroup(s) == IF Has(map, "CONTENT GROUP") THEN [s EXCEPT !.grouping = Text("CONTENT GROUP")] ELSE s
      grouping(s) == IF Has(map, "GROUPING") THEN [s EXCEPT !.grouping = Text("GROUPING")] ELSE s
      albumartist(s) ==
        IF Has(map, "ALBUMARTIST") THEN [s EXCEPT !.albumartist = Text("ALBUMARTIST")]
        ELSE IF Has(map, "ALBUM ARTIST") THEN [s EXCEPT !.albumartist = Text("ALBUM ARTIST")]
        ELSE s
      originalyear(s) ==
        IF Has(map, "ORIGINALDATE")
        THEN [s EXCEPT !.originalyear = QToInt(Left(map["ORIGINALDATE"][1], 4))]
        ELSE IF Has(map, "ORIGINALYEAR")
        THEN [s EXCEPT !.originalyear = QToInt(map["ORIGINALYEAR"][1])]
        ELSE s
      disc == IF Has(map, "DISCNUMBER") THEN Trimmed(map["DISCNUMBER"][1]) ELSE st.disc
      comp == IF Has(map, "COMPILATION") THEN Trimmed(map["COMPILATION"][1]) ELSE st.compilation
      coverart(s) == IF Has(map, "COVERART") THEN [s EXCEPT !.art_embedded = TRUE] ELSE s
      picture(s) == IF Has(map, "METADATA_BLOCK_PICTURE") THEN [s EXCEPT !.art_embedded = TRUE] ELSE s
      \* set_playcount(static_cast<uint>(playcount)) keeps the 32 bits of the
      \* int; the record holds them here as the signed number they spell
      playcount(s) ==
        IF Has(map, "FMPS_PLAYCOUNT") /\ s.playcount <= 0
        THEN [s EXCEPT !.playcount = QToInt(Trimmed(map["FMPS_PLAYCOUNT"][1]))]
        ELSE s
      rating(s) ==
        IF Has(map, "FMPS_RATING") /\ s.rating <= 0
        THEN [s EXCEPT !.rating = QToFloat(Trimmed(map["FMPS_RATING"][1]))]
        ELSE s
      lyrics(s) ==
        IF Has(map, "LYRICS") THEN [s EXCEPT !.lyrics = Text("LYRICS")]
        ELSE IF Has(map, "UNSYNCEDLYRICS") THEN [s EXCEPT !.lyrics = Text("UNSYNCEDLYRICS")]
        ELSE s
  IN [disc |-> disc, compilation |-> comp,
      song |-> lyrics(rating(playcount(picture(coverart(originalyear(albumartist(
                 grouping(contentGroup(performer(composer(st.song)))))))))))]

\* TagLib::APE::Item::toString(): the first text value, or nothing
ApeToString(item) == IF Len(item.vals) > 0 THEN item.vals[1] ELSE ""

\* TagReaderTagLib::ParseAPETag
ParseAPETag(map, st) ==
  LET albumartist(s) ==
        IF Has(map, "ALBUM ARTIST") /\ Len(map["ALBUM ARTIST"].vals) > 0
        THEN [s EXCEPT !.albumartist = AssignTagLibStringToStdString(map["ALBUM ARTIST"].vals[1])]
        ELSE s
      cover(s) == IF Has(map, "COVER ART (FRONT)") THEN [s EXCEPT !.art_embedded = TRUE] ELSE s
      comp == IF Has(map, "COMPILATION")
              THEN Number(TToInt(ApeToString(map["COMPILATION"]))) ELSE st.compilation
      disc == IF Has(map, "DISC") THEN Number(TToInt(ApeToString(map["DISC"]))) ELSE st.disc
      performer(s) ==
        IF Has(map, "PERFORMER")
        THEN [s EXCEPT !.performer = AssignTagLibStringToStdString(Join(map["PERFORMER"].vals, ", "))]
        ELSE s
      composer(s) ==
        IF Has(map, "COMPOSER")
        THEN [s EXCEPT !.composer = AssignTagLibStringToStdString(Join(map["COMPOSER"].vals, ", "))]
        ELSE s
      grouping(s) ==
        IF Has(map, "GROUPING")
        THEN [s EXCEPT !.grouping = AssignTagLibStringToStdString(Join(map["GROUPING"].vals, " "))]
        ELSE s
      lyrics(s) ==
        IF Has(map, "LYRICS")
        THEN [s EXCEPT !.lyrics = AssignTagLibStringToStdString(ApeToString(map["LYRICS"]))]
        ELSE s
      pc == IF Has(map, "FMPS_PLAYCOUNT") THEN QToInt(ApeToString(map["FMPS_PLAYCOUNT"])) ELSE 0
      playcount(s) ==
        IF Has(map, "FMPS_PLAYCOUNT") /\ s.playcount <= 0 /\ pc > 0
        THEN [s EXCEPT !.playcount = pc] ELSE s
      rt == IF Has(map, "FMPS_RATING") THEN QToFloat(ApeToString(map["FMPS_RATING"])) ELSE 0
      rating(s) ==
        IF Has(map, "FMPS_RATING") /\ s.rating <= 0 /\ rt > 0
        THEN [s EXCEPT !.rating = rt] ELSE s
  IN [disc |-> disc, compilation |-> comp,
      song |-> rating(playcount(lyrics(grouping(composer(performer(cover(
                 albumartist(st.song))))))))]

\* TagReaderBase::ConvertPOPMRating: the POPM byte (0..255) as a rating
ConvertPOPMRating(b) ==
  IF b = 255 \/ b = 5 THEN 100
  ELSE IF b <= 0 THEN 0
  ELSE IF b <= 31 THEN 20
  ELSE IF b <= 95 THEN 40
  ELSE IF b <= 159 THEN 60
  ELSE IF b <= 223 THEN 80
  ELSE 100

\* TagReaderBase::ConvertToPOPMRating: a rating as the byte that stands for
\* its band
ConvertToPOPMRating(r) ==
  IF r <= 0 THEN 0
  ELSE IF r <= 20 THEN 1
  ELSE IF r <= 40 THEN 64
  ELSE IF r <= 60 THEN 128
  ELSE IF r <= 80 THEN 196
  ELSE 255

\* TagLib::ID3v2::Frame::toString() of a text frame: its fields joined
FrameText(frame) == Join(frame.vals, " ")

\* frameListMap().contains(id)
HasFrame(frames, id) == Len(SelectFrames(frames, id)) > 0

\* frameListMap()[id].front()
FrontFrame(frames, id) == SelectFrames(frames, id)[1]

\* TagLib::ID3v2::UserTextIdentificationFrame::find: the position of the
\* first TXXX frame with the description, 0 when there is none
FindUserText(frames, description) ==
  IF \E i \in 1..Len(frames) : frames[i].id = "TXXX" /\ frames[i].desc = description
  THEN CHOOSE i \in 1..Len(frames) :
         /\ frames[i].id = "TXXX" /\ frames[i].desc = description
         /\ \A j \in 1..(i - 1) : ~(frames[j].id = "TXXX" /\ frames[j].desc = description)
  ELSE 0

\* the comment loop of ParseID3v2Tag: the first COMM frame not named iTunNORM
FirstComment(frames) ==
  LET comm == SelectFrames(frames, "COMM")
  IN IF \E i \in 1..Len(comm) : comm[i].desc # "iTunNORM"
     THEN <<(comm[CHOOSE i \in 1..Len(comm) :
                /\ comm[i].desc # "iTunNORM"
                /\ \A j \in 1..(i - 1) : comm[j].desc = "iTunNORM"]).vals[1]>>
     ELSE <<>>

\* a ParseID3v2Tag that looks at the POPM frame before the user-text frames
ParseID3v2TagPopmFirst(frames, st) ==
  LET Text(id) == FrameText(FrontFrame(frames, id))
      disc == IF HasFrame(frames, "TPOS") THEN Trimmed(Text("TPOS")) ELSE st.disc
      composer(s) ==
        IF HasFrame(frames, "TCOM") THEN [s EXCEPT !.composer = AssignTagLibStringToStdString(Text("TCOM"))] ELSE s
      grouping(s) ==
        IF HasFrame(frames, "TIT1") THEN [s EXCEPT !.grouping = AssignTagLibStringToStdString(Text("TIT1"))] ELSE s
      performer(s) ==
        IF HasFrame(frames, "TOPE") THEN [s EXCEPT !.performer = AssignTagLibStringToStdString(Text("TOPE"))] ELSE s
      albumartist(s) ==
        IF HasFrame(frames, "TPE2") THEN [s EXCEPT !.albumartist = AssignTagLibStringToStdString(Text("TPE2"))] ELSE s
      comp == IF HasFrame(frames, "TCMP") THEN Trimmed(Text("TCMP")) ELSE st.compilation
      originalyear(s) ==
        IF HasFrame(frames, "TDOR") THEN [s EXCEPT !.originalyear = TToInt(Left(Text("TDOR"), 4))]
        ELSE IF HasFrame(frames, "TORY") THEN [s EXCEPT !.originalyear = TToInt(Left(Text("TORY"), 4))]
        ELSE s
      lyrics(s) ==
        IF HasFrame(frames, "USLT") THEN [s EXCEPT !.lyrics = AssignTagLibStringToStdString(Text("USLT"))]
        ELSE IF HasFrame(frames, "SYLT") THEN [s EXCEPT !.lyrics = AssignTagLibStringToStdString(Text("SYLT"))]
        ELSE s
      apic(s) == IF HasFrame(frames, "APIC") THEN [s EXCEPT !.art_embedded = TRUE] ELSE s
      comm == FirstComment(frames)
      comment(s) ==
        IF Len(comm) > 0 THEN [s EXCEPT !.comment = AssignTagLibStringToStdString(comm[1])] ELSE s
      ip == FindUserText(frames, "FMPS_Playcount")
      pc == IF ip > 0 /\ Len(frames[ip].vals) > 0 THEN QToInt(frames[ip].vals[1]) ELSE 0
      playcount(s) ==
        IF ip > 0 /\ Len(frames[ip].vals) > 0 /\ s.playcount <= 0 /\ pc > 0
        THEN [s EXCEPT !.playcount = pc] ELSE s
      ir == FindUserText(frames, "FMPS_Rating")
      rt == IF ir > 0 /\ Len(frames[ir].vals) > 0 THEN QToFloat(frames[ir].vals[1]) ELSE 0
      rating(s) ==
        IF ir > 0 /\ Len(frames[ir].vals) > 0 /\ s.rating <= 0 /\ rt > 0 /\ rt <= 100
        THEN [s EXCEPT !.rating = rt] ELSE s
      popm == IF HasFrame(frames, "POPM") THEN <<FrontFrame(frames, "POPM")>> ELSE <<>>
      popmCounter(s) ==
        IF Len(popm) > 0 /\ s.playcount <= 0 /\ popm[1].counter > 0
        THEN [s EXCEPT !.playcount = popm[1].counter] ELSE s
      popmRating(s) ==
        IF Len(popm) > 0 /\ s.rating <= 0 /\ popm[1].rating > 0
        THEN [s EXCEPT !.rating = ConvertPOPMRating(popm[1].rating)] ELSE s
  IN [disc |-> disc, compilation |-> comp,
      song |-> rating(playcount(popmRating(popmCounter(comment(apic(lyrics(originalyear(
                 albumartist(performer(grouping(composer(st.song))))))))))))]

\* TagReaderTagLib::ParseID3v2Tag
ParseID3v2Tag(frames, st) ==
  LET Text(id) == FrameText(FrontFrame(frames, id))
      disc == IF HasFrame(frames, "TPOS") THEN Trimmed(Text("TPOS")) ELSE st.disc
      composer(s) ==
        IF HasFrame(frames, "TCOM") THEN [s EXCEPT !.composer = AssignTagLibStringToStdString(Text("TCOM"))] ELSE s
      grouping(s) ==
        IF HasFrame(frames, "TIT1") THEN [s EXCEPT !.grouping = AssignTagLibStringToStdString(Text("TIT1"))] ELSE s
      performer(s) ==
        IF HasFrame(frames, "TOPE") THEN [s EXCEPT !.performer = AssignTagLibStringToStdString(Text("TOPE"))] ELSE s
      albumartist(s) ==
        IF HasFrame(frames, "TPE2") THEN [s EXCEPT !.albumartist = AssignTagLibStringToStdString(Text("TPE2"))] ELSE s
      comp == IF HasFrame(frames, "TCMP") THEN Trimmed(Text("TCMP")) ELSE st.compilation
      originalyear(s) ==
        IF HasFrame(frames, "TDOR") THEN [s EXCEPT !.originalyear = TToInt(Left(Text("TDOR"), 4))]
        ELSE IF HasFrame(frames, "TORY") THEN [s EXCEPT !.originalyear = TToInt(Left(Text("TORY"), 4))]
        ELSE s
      lyrics(s) ==
        IF HasFrame(frames, "USLT") THEN [s EXCEPT !.lyrics = AssignTagLibStringToStdString(Text("USLT"))]
        ELSE IF HasFrame(frames, "SYLT") THEN [s EXCEPT !.lyrics = AssignTagLibStringToStdString(Text("SYLT"))]
        ELSE s
      apic(s) == IF HasFrame(frames, "APIC") THEN [s EXCEPT !.art_embedded = TRUE] ELSE s
      comm == FirstComment(frames)
      comment(s) ==
        IF Len(comm) > 0 THEN [s EXCEPT !.comment = AssignTagLibStringToStdString(comm[1])] ELSE s
      ip == FindUserText(frames, "FMPS_Playcount")
      pc == IF ip > 0 /\ Len(frames[ip].vals) > 0 THEN QToInt(frames[ip].vals[1]) ELSE 0
      playcount(s) ==
        IF ip > 0 /\ Len(frames[ip].vals) > 0 /\ s.playcount <= 0 /\ pc > 0
        THEN [s EXCEPT !.playcount = pc] ELSE s
      ir == FindUserText(frames, "FMPS_Rating")
      rt == IF ir > 0 /\ Len(frames[ir].vals) > 0 THEN QToFloat(frames[ir].vals[1]) ELSE 0
      rating(s) ==
        IF ir > 0 /\ Len(frames[ir].vals) > 0 /\ s.rating <= 0 /\ rt > 0 /\ rt <= 100
        THEN [s EXCEPT !.rating = rt] ELSE s
      popm == IF HasFrame(frames, "POPM") THEN <<FrontFrame(frames, "POPM")>> ELSE <<>>
      popmCounter(s) ==
        IF Len(popm) > 0 /\ s.playcount <= 0 /\ popm[1].counter > 0
        THEN [s EXCEPT !.playcount = popm[1].counter] ELSE s
      popmRating(s) ==
        IF Len(popm) > 0 /\ s.rating <= 0 /\ popm[1].rating > 0
        THEN [s EXCEPT !.rating = ConvertPOPMRating(popm[1].rating)] ELSE s
  IN [disc |-> disc, compilation |-> comp,
      song |-> popmRating(popmCounter(rating(playcount(comment(apic(lyrics(originalyear(
                 albumartist(performer(grouping(composer(st.song))))))))))))]

kMP4_OriginalYear_ID == "----:com.apple.iTunes:ORIGINAL YEAR"

kMP4_FMPS_Playcount_ID == "----:com.apple.iTunes:FMPS_Playcount"

kMP4_FMPS_Rating_ID == "----:com.apple.iTunes:FMPS_Rating"

\* the MP4 branch of ReadFile, for a file with a tag; the atoms "\251wrt",
\* "\251grp" and "\251lyr" are written "(c)wrt", "(c)grp" and "(c)lyr"
ParseMP4Tag(file, st) ==
  LET items == file.mp4.items
      albumartist(s) ==
        IF Has(items, "aART") /\ Len(items["aART"].strs) > 0
        THEN [s EXCEPT !.albumartist = AssignTagLibStringToStdString(items["aART"].strs[1])] ELSE s
      covr(s) == IF Has(items, "covr") THEN [s EXCEPT !.art_embedded = TRUE] ELSE s
      disc == IF Has(items, "disk") THEN Number(items["disk"].n) ELSE st.disc
      composer(s) ==
        IF Has(items, "(c)wrt")
        THEN [s EXCEPT !.composer = AssignTagLibStringToStdString(Join(items["(c)wrt"].strs, ", "))] ELSE s
      grouping(s) ==
        IF Has(items, "(c)grp")
        THEN [s EXCEPT !.grouping = AssignTagLibStringToStdString(Join(items["(c)grp"].strs, " "))] ELSE s
      lyrics(s) ==
        IF Has(items, "(c)lyr")
        THEN [s EXCEPT !.lyrics = AssignTagLibStringToStdString(Join(items["(c)lyr"].strs, " "))] ELSE s
      originalyear(s) ==
        IF Has(items, kMP4_OriginalYear_ID)
        THEN [s EXCEPT !.originalyear = QToInt(Left(Join(items[kMP4_OriginalYear_ID].strs, "\n"), 4))]
        ELSE s
      cpil(s) == IF Has(items, "cpil") THEN [s EXCEPT !.compilation = items["cpil"].b] ELSE s
      pc == IF Has(items, kMP4_FMPS_Playcount_ID) THEN QToInt(Join(items[kMP4_FMPS_Playcount_ID].strs, "\n")) ELSE 0
      playcount(s) ==
        IF Has(items, kMP4_FMPS_Playcount_ID) /\ s.playcount <= 0 /\ pc > 0
        THEN [s EXCEPT !.playcount = pc] ELSE s
      rt == IF Has(items, kMP4_FMPS_Rating_ID) THEN QToFloat(Join(items[kMP4_FMPS_Rating_ID].strs, "\n")) ELSE 0
      rating(s) ==
        IF Has(items, kMP4_FMPS_Rating_ID) /\ s.rating <= 0 /\ rt > 0
        THEN [s EXCEPT !.rating = rt] ELSE s
      comment(s) == [s EXCEPT !.comment = AssignTagLibStringToStdString(file.tag.comment)]
  IN [disc |-> disc, compilation |-> st.compilation,
      song |-> comment(rating(playcount(cpil(originalyear(lyrics(grouping(composer(
                 covr(albumartist(st.song))))))))))]

\* the ASF branch of ReadFile, for a file with a tag
ParseASFTag(file, st) ==
  LET attrs == file.asf.attrs
      comment(s) == [s EXCEPT !.comment = AssignTagLibStringToStdString(file.tag.comment)]
      originalyear(s) ==
        IF Has(attrs, "WM/OriginalReleaseTime")
        THEN (IF Len(attrs["WM/OriginalReleaseTime"]) > 0
              THEN [s EXCEPT !.originalyear = QToInt(Left(attrs["WM/OriginalReleaseTime"][1], 4))]
              ELSE s)
        ELSE IF Has(attrs, "WM/OriginalReleaseYear") /\ Len(attrs["WM/OriginalReleaseYear"]) > 0
        THEN [s EXCEPT !.originalyear = QToInt(Left(attrs["WM/OriginalReleaseYear"][1], 4))]
        ELSE s
      hasPc == Has(attrs, "FMPS/Playcount") /\ Len(attrs["FMPS/Playcount"]) > 0
      pc == IF hasPc THEN QToInt(attrs["FMPS/Playcount"][1]) ELSE 0
      playcount(s) == IF hasPc /\ s.playcount <= 0 /\ pc > 0 THEN [s EXCEPT !.playcount = pc] ELSE s
      hasRt == Has(attrs, "FMPS/Rating") /\ Len(attrs["FMPS/Rating"]) > 0
      rt == IF hasRt THEN QToFloat(attrs["FMPS/Rating"][1]) ELSE 0
      rating(s) == IF hasRt /\ s.rating <= 0 /\ rt > 0 THEN [s EXCEPT !.rating = rt] ELSE s
  IN [disc |-> st.disc, compilation |-> st.compilation,
      song |-> rating(playcount(originalyear(comment(st.song))))]

kNsecPerMsec == 1000000

\* QDateTime to seconds as ReadFile takes it: 0 when invalid or negative
SecsOrZero(t) == IF t.valid THEN (IF t.secs > 0 THEN t.secs ELSE 0) ELSE 0

\* a ReadFile that opens the file before it sets any housekeeping field
\* has set none of them when the open fails
HousekeepingAfterOpen(filename, file, sng, now) ==
  IF file.open # "ok" THEN sng
  ELSE LET m == SecsOrZero(file.mtime)
           c == IF file.btime.valid THEN SecsOrZero(file.btime) ELSE m
       IN [sng EXCEPT !.basefilename = BaseName(filename),
                      !.url = "file://" \o filename,
                      !.filesize = file.size,
                      !.mtime = m,
                      !.ctime = IF c <= 0 THEN m ELSE c,
                      !.lastseen = now]

\* the format independent fields ReadFile sets before it opens the file
Housekeeping(filename, file, sng, now) ==
  LET m == SecsOrZero(file.mtime)
      c == IF file.btime.valid THEN SecsOrZero(file.btime) ELSE m
  IN [sng EXCEPT !.basefilename = BaseName(filename),
                 !.url = "file://" \o filename,
                 !.filesize = file.size,
                 !.mtime = m,
                 !.ctime = IF c <= 0 THEN m ELSE c,
                 !.lastseen = now]

\* the audio properties and the generic tag fields
ReadGeneric(file, sng) ==
  LET s0 == [sng EXCEPT !.filetype = GuessFileType(file)]
      s1 == IF file.hasProps
            THEN [s0 EXCEPT !.bitrate = file.bitrate, !.samplerate = file.samplerate,
                            !.length = file.lengthms * kNsecPerMsec]
            ELSE s0
  IN IF file.hasTag
     THEN [s1 EXCEPT !.title = AssignTagLibStringToStdString(file.tag.title),
                     !.artist = AssignTagLibStringToStdString(file.tag.artist),
                     !.album = AssignTagLibStringToStdString(file.tag.album),
                     !.genre = AssignTagLibStringToStdString(file.tag.genre),
                     !.year = file.tag.year, !.track = file.tag.track, !.valid = TRUE]
     ELSE s1

ReadComment(file, st) ==
  IF file.hasTag THEN [st EXCEPT !.song.comment = AssignTagLibStringToStdString(file.tag.comment)] ELSE st

SetArtIfFrontCover(file, st) ==
  IF HasFrontCover(file.pics) THEN [st EXCEPT !.song.art_embedded = TRUE] ELSE st

\* the format specific extraction of ReadFile
ReadFormat(file, st0) ==
  LET bits(st) == [st EXCEPT !.song.bitdepth = file.bits]
      ape(st) == IF file.ape.present THEN ParseAPETag(file.ape.items, st) ELSE st
      id3(st) == IF file.id3.present THEN ParseID3v2Tag(file.id3.frames, st) ELSE st
      branch(st1) ==
        CASE file.cls = "FLAC" ->
               ReadComment(file,
                 IF file.xiph.present
                 THEN SetArtIfFrontCover(file, ParseOggTag(file.xiph.fields, bits(st1)))
                 ELSE bits(st1))
          [] file.cls = "WavPack" -> ReadComment(file, ape(bits(st1)))
          [] file.cls = "APE" -> ReadComment(file, bits(ape(st1)))
          [] file.cls \in {"MPEG", "WAV"} -> id3(st1)
          [] file.cls = "MP4" ->
               IF file.mp4.present THEN ParseMP4Tag(file, bits(st1)) ELSE bits(st1)
          [] file.cls = "ASF" ->
               IF file.asf.present THEN ParseASFTag(file, bits(st1)) ELSE bits(st1)
          [] file.cls = "MPC" -> ReadComment(file, ape(st1))
          [] OTHER -> ReadComment(file, st1)
  IN branch(IF file.cls \in XiphTagClasses /\ file.hasTag
            THEN SetArtIfFrontCover(file, ParseOggTag(file.xiph.fields, st0))
            ELSE st0)

\* the disc staging string: "3/12" is disc 3, "7" is disc 7
ApplyDisc(disc, sng) ==
  IF Len(disc) = 0 THEN sng
  ELSE LET i == IndexOf(disc, "/")
       IN IF i # -1 THEN [sng EXCEPT !.disc = QToInt(Left(disc, i))]
          ELSE [sng EXCEPT !.disc = QToInt(disc)]

\* the compilation staging string, or the guess from the artist
ApplyCompilation(compilation, sng) ==
  IF Len(compilation) = 0
  THEN (IF \/ QCompareEqual(Utf8Decode(sng.artist), "various artists")
           \/ QCompareEqual(Utf8Decode(sng.albumartist), "various artists")
        THEN [sng EXCEPT !.compilation = TRUE]
        ELSE sng)
  ELSE [sng EXCEPT !.compilation = (QToInt(compilation) = 1)]

\* a normalization that tests for 0 only
UnsetZero(v) == IF v = 0 THEN -1 ELSE v

\* "Set integer fields to -1 if they're not valid"
Unset(v) == IF v <= 0 THEN -1 ELSE v

Normalize(sng) ==
  [sng EXCEPT !.track = Unset(sng.track), !.disc = Unset(sng.disc),
              !.year = Unset(sng.year), !.originalyear = Unset(sng.originalyear),
              !.samplerate = Unset(sng.samplerate), !.bitdepth = Unset(sng.bitdepth),
              !.bitrate = Unset(sng.bitrate), !.lastplayed = Unset(sng.lastplayed)]

\* the record ReadFile leaves for a file it has opened
ReadOpened(file, sng) ==
  LET finish(st) == Normalize(ApplyCompilation(st.compilation, ApplyDisc(st.disc, st.song)))
  IN finish(ReadFormat(file, [disc |-> "", compilation |-> "", song |-> ReadGeneric(file, sng)]))

\* a check of the pointer alone, without isNull()
OpenFailsNullptr(file) == file.open = "nullptr"

\* whether the factory's FileRef passes "!fileref || fileref->isNull()"
OpenFails(file) == file.open # "ok"

\* TagReaderTagLib::ReadFile
ReadFile(filename, sng, fsys, now, handles) ==
  IF filename = "" THEN ReadOutcome(FilenameMissing, sng, 0, handles)
  ELSE IF filename \notin DOMAIN fsys THEN ReadOutcome(FileDoesNotExist, sng, 0, handles)
  ELSE LET file == fsys[filename]
           nOpen == IF file.open = "nullptr" THEN 0 ELSE 1
           after == IF nOpen = 0 THEN handles ELSE Release(handles + 1)
           classified(done) ==
             IF done.filetype = UNKNOWN
             THEN ReadOutcome(Unsupported, done, nOpen, after)
             ELSE ReadOutcome(Success, done, nOpen, after)
           housekept(kept) ==
             IF OpenFails(file) THEN ReadOutcome(FileOpenError, kept, nOpen, after)
             ELSE classified(ReadOpened(file, kept))
       IN housekept(Housekeeping(filename, file, sng, now))

----------------------------------------------------------------------------
(* The tag mutations of the writer.                                        *)

\* TagLib::Ogg::XiphComment::addField(key, value, replace = true): the old
\* values go, an empty value adds nothing
AddField(fields, key, value) ==
  IF Len(value) = 0 THEN Del(fields, key) ELSE Put(fields, key, <<value>>)

\* TagLib::Ogg::XiphComment::removeFields(key)
RemoveFields(fields, key) == Del(fields, key)

\* QStringToTagLibString / TagLibStringToQString: code points to code points
QStringToTagLibString(q) == q

\* TagReaderTagLib::SetVorbisComments
SetVorbisComments(fields, sng) ==
  LET f1 == AddField(fields, "COMPOSER", StdStringToTagLibString(sng.composer))
      f2 == AddField(f1, "PERFORMER", StdStringToTagLibString(sng.performer))
      f3 == AddField(f2, "GROUPING", StdStringToTagLibString(sng.grouping))
      f4 == AddField(f3, "DISCNUMBER",
                     QStringToTagLibString(IF sng.disc <= 0 THEN "" ELSE Number(sng.disc)))
      f5 == AddField(f4, "COMPILATION",
                     QStringToTagLibString(IF sng.compilation THEN "1" ELSE ""))
      f6 == RemoveFields(AddField(f5, "ALBUMARTIST", StdStringToTagLibString(sng.albumartist)),
                         "ALBUM ARTIST")
  IN RemoveFields(AddField(f6, "LYRICS", StdStringToTagLibString(sng.lyrics)), "UNSYNCEDLYRICS")

\* a text APE item
ApeItem(values) == [vals |-> values, bin |-> ""]

\* TagLib::APE::Tag::setItem(key, item): stored under the upper-case key
SetItem(items, key, item) == Put(items, ToUpper(key), item)

\* TagLib::APE::Tag::removeItem(key)
RemoveItem(items, key) == Del(items, ToUpper(key))

\* TagLib::APE::Tag::addValue(key, value, replace = true)
AddValue(items, key, value) ==
  IF Len(value) = 0 THEN RemoveItem(items, key)
  ELSE SetItem(RemoveItem(items, key), key, ApeItem(<<value>>))

\* TagLib::String(const char *) and TagLib::String(const std::string &): the
\* bytes are read as Latin-1, one code point per byte
Latin1Decode(bytes) == bytes

\* TagReaderTagLib::SaveAPETag
SaveAPETag(items, sng) ==
  LET i1 == SetItem(items, "album artist", ApeItem(<<Latin1Decode(sng.albumartist)>>))
      i2 == AddValue(i1, "disc", QStringToTagLibString(IF sng.disc <= 0 THEN "" ELSE Number(sng.disc)))
      i3 == SetItem(i2, "composer", ApeItem(<<Latin1Decode(sng.composer)>>))
      i4 == SetItem(i3, "grouping", ApeItem(<<Latin1Decode(sng.grouping)>>))
      i5 == SetItem(i4, "performer", ApeItem(<<Latin1Decode(sng.performer)>>))
      i6 == SetItem(i5, "lyrics", ApeItem(<<Latin1Decode(sng.lyrics)>>))
  IN AddValue(i6, "compilation", QStringToTagLibString(IF sng.compilation THEN Number(1) ELSE ""))

\* an ID3v2 frame
Frame(id, description, values, encoding) ==
  [id |-> id, desc |-> description, vals |-> values, enc |-> encoding,
   rating |-> 0, counter |-> 0, ptype |-> "", mime |-> ""]

\* a SetTextFrame that puts back one frame only
SetSingleTextFrame(id, value, frames) ==
  IF Len(value) = 0 THEN RemoveFrames(frames, id)
  ELSE RemoveFrames(frames, id) \o <<Frame(id, "", <<StdStringToTagLibString(value)>>, "UTF8")>>

\* TagReaderTagLib::SetTextFrame(id, std::string, tag): the frames of the
\* identifier are taken out in order and, for a value, put back at the end,
\* the first with the new text
SetTextFrame(id, value, frames) ==
  LET captured == SelectFrames(frames, id)
      rest == RemoveFrames(frames, id)
      buffer == IF Len(captured) = 0 THEN <<Frame(id, "", <<>>, "UTF8")>> ELSE captured
      renewed == [i \in 1..Len(buffer) |->
                    IF i = 1 THEN [buffer[i] EXCEPT !.vals = <<StdStringToTagLibString(value)>>]
                    ELSE buffer[i]]
  IN IF Len(value) = 0 THEN rest ELSE rest \o renewed

\* TagReaderTagLib::SetTextFrame(id, QString, tag)
SetTextFrameQ(id, value, frames) == SetTextFrame(id, Utf8Encode(value), frames)

\* TagReaderTagLib::SetUnsyncLyricsFrame
SetUnsyncLyricsFrame(value, frames) ==
  LET captured == SelectFrames(frames, "USLT")
      rest == RemoveFrames(frames, "USLT")
      buffer == IF Len(captured) = 0
                THEN <<Frame("USLT", "Clementine editor", <<>>, "UTF8")>>
                ELSE captured
      renewed == [i \in 1..Len(buffer) |->
                    IF i = 1 THEN [buffer[i] EXCEPT !.vals = <<StdStringToTagLibString(value)>>]
                    ELSE buffer[i]]
  IN IF Len(value) = 0 THEN rest ELSE rest \o renewed

\* a sequence without its i-th element
RemoveAt(seq, i) == SubSeq(seq, 1, i - 1) \o SubSeq(seq, i + 1, Len(seq))

\* a SetUserTextFrame that leaves the frame it finds in the tag
AppendUserTextFrame(description, value, frames) ==
  frames \o <<Frame("TXXX", StdStringToTagLibString(description),
                    <<StdStringToTagLibString(value)>>, "UTF8")>>

\* TagReaderTagLib::SetUserTextFrame(std::string, std::string, tag)
SetUserTextFrame(description, value, frames) ==
  LET t_description == StdStringToTagLibString(description)
      i == FindUserText(frames, t_description)
      rest == IF i > 0 THEN RemoveAt(frames, i) ELSE frames
  IN rest \o <<Frame("TXXX", t_description, <<StdStringToTagLibString(value)>>, "UTF8")>>

\* TagReaderTagLib::SetUserTextFrame(QString, QString, tag)
SetUserTextFrameQ(description, value, frames) ==
  SetUserTextFrame(Utf8Encode(description), Utf8Encode(value), frames)

\* TagReaderTagLib::SaveID3v2Tag
SaveID3v2Tag(frames, sng) ==
  LET f1 == SetTextFrameQ("TPOS", IF sng.disc <= 0 THEN "" ELSE Number(sng.disc), frames)
      f2 == SetTextFrame("TCOM", sng.composer, f1)
      f3 == SetTextFrame("TIT1", sng.grouping, f2)
      f4 == SetTextFrame("TOPE", sng.performer, f3)
      f5 == SetTextFrame("TPE2", sng.albumartist, f4)
      f6 == SetTextFrameQ("TCMP", IF sng.compilation THEN Number(1) ELSE "", f5)
  IN SetUnsyncLyricsFrame(sng.lyrics, f6)

\* a GetPOPMFrameFromTag that never looks for a frame the tag has already
GetNewPOPMFrame(frames) == frames \o <<Frame("POPM", "", <<>>, "")>>

\* TagReaderTagLib::GetPOPMFrameFromTag: the frames with a POPM frame in
\* them, a new one added at the end when there was none
GetPOPMFrameFromTag(frames) ==
  IF HasFrame(frames, "POPM") THEN frames ELSE frames \o <<Frame("POPM", "", <<>>, "")>>

\* the position of the frame GetPOPMFrameFromTag returns
POPMIndex(frames) == CHOOSE i \in 1..Len(frames) :
  frames[i].id = "POPM" /\ \A j \in 1..(i - 1) : frames[j].id # "POPM"

\* TagLib::ID3v2::Tag::setComment, reached through fileref->tag(): no text
\* removes the COMM frames; otherwise the first COMM frame without a
\* description, or else the first COMM frame, or else a new one gets the text
SetComment(frames, text) ==
  LET isComm(i) == frames[i].id = "COMM"
      plain(i) == isComm(i) /\ frames[i].desc = ""
      first(test(_)) == CHOOSE i \in 1..Len(frames) :
                          test(i) /\ \A j \in 1..(i - 1) : ~test(j)
  IN IF Len(text) = 0 THEN RemoveFrames(frames, "COMM")
     ELSE IF \E i \in 1..Len(frames) : plain(i)
     THEN [frames EXCEPT ![first(plain)].vals = <<text>>]
     ELSE IF \E i \in 1..Len(frames) : isComm(i)
     THEN [frames EXCEPT ![first(isComm)].vals = <<text>>]
     ELSE frames \o <<Frame("COMM", "", <<text>>, "UTF8")>>

\* SetPlaycount(TagLib::Ogg::XiphComment *, uint)
SetPlaycountXiph(fields, playcount) ==
  IF playcount > 0 THEN AddField(fields, "FMPS_PLAYCOUNT", Number(playcount))
  ELSE RemoveFields(fields, "FMPS_PLAYCOUNT")

\* a SetPlaycount that leaves the item alone when the count is 0
KeepPlaycountAPE(items, playcount) ==
  IF playcount > 0 THEN SetItem(items, "FMPS_Playcount", ApeItem(<<Number(playcount)>>))
  ELSE items

\* SetPlaycount(TagLib::APE::Tag *, uint)
SetPlaycountAPE(items, playcount) ==
  IF playcount > 0 THEN SetItem(items, "FMPS_Playcount", ApeItem(<<Number(playcount)>>))
  ELSE RemoveItem(items, "FMPS_Playcount")

\* SetPlaycount(TagLib::ID3v2::Tag *, uint)
SetPlaycountID3v2(frames, playcount) ==
  LET f1 == GetPOPMFrameFromTag(SetUserTextFrameQ("FMPS_Playcount", Number(playcount), frames))
  IN [f1 EXCEPT ![POPMIndex(f1)].counter = playcount]

\* the kinds of TagLib::MP4::Item the code makes
Mp4Strings(list) == [strs |-> list, n |-> 0, b |-> FALSE, covers |-> <<>>]

Mp4Int(n) == [strs |-> <<>>, n |-> n, b |-> FALSE, covers |-> <<>>]

Mp4Bool(b) == [strs |-> <<>>, n |-> 0, b |-> b, covers |-> <<>>]

Mp4Covers(list) == [strs |-> <<>>, n |-> 0, b |-> FALSE, covers |-> list]

\* SetPlaycount(TagLib::MP4::Tag *, uint)
SetPlaycountMP4(items, playcount) ==
  IF playcount > 0 THEN Put(items, kMP4_FMPS_Playcount_ID, Mp4Strings(<<Number(playcount)>>))
  ELSE Del(items, kMP4_FMPS_Playcount_ID)

\* SetRating(TagLib::Ogg::XiphComment *, float)
SetRatingXiph(fields, rating) ==
  IF rating > 0 THEN AddField(fields, "FMPS_RATING", QStringToTagLibString(FloatNumber(rating)))
  ELSE RemoveFields(fields, "FMPS_RATING")

\* SetRating(TagLib::APE::Tag *, float)
SetRatingAPE(items, rating) ==
  IF rating > 0
  THEN SetItem(items, "FMPS_Rating", ApeItem(<<QStringToTagLibString(FloatNumber(rating))>>))
  ELSE RemoveItem(items, "FMPS_Rating")

\* SetRating(TagLib::ID3v2::Tag *, float)
SetRatingID3v2(frames, rating) ==
  LET f1 == GetPOPMFrameFromTag(SetUserTextFrameQ("FMPS_Rating", FloatNumber(rating), frames))
  IN [f1 EXCEPT ![POPMIndex(f1)].rating = ConvertToPOPMRating(rating)]

\* SetRating(TagLib::MP4::Tag *, float)
SetRatingMP4(items, rating) ==
  Put(items, kMP4_FMPS_Rating_ID, Mp4Strings(<<QStringToTagLibString(FloatNumber(rating))>>))

\* TagLib::ASF::Tag::addAttribute: one more value under the name
AddAttribute(attrs, name, value) ==
  IF Has(attrs, name) THEN Put(attrs, name, Append(attrs[name], value))
  ELSE Put(attrs, name, <<value>>)

\* SetRating(TagLib::ASF::Tag *, float)
SetRatingASF(attrs, rating) ==
  AddAttribute(attrs, "FMPS/Rating", QStringToTagLibString(FloatNumber(rating)))

\* a FLAC picture
Picture(type, data, mime) == [type |-> type, data |-> data, mime |-> mime]

\* a SetEmbeddedArt that leaves the pictures it finds
AddEmbeddedArtXiph(pics, data, mime_type) ==
  IF Len(data) > 0 THEN pics \o <<Picture("FrontCover", data, QStringToTagLibString(mime_type))>>
  ELSE pics

\* SetEmbeddedArt(TagLib::FLAC::File *, ...) and
\* SetEmbeddedArt(TagLib::Ogg::XiphComment *, ...): the pictures after it
SetEmbeddedArtXiph(pics, data, mime_type) ==
  IF Len(data) > 0 THEN <<Picture("FrontCover", data, QStringToTagLibString(mime_type))>>
  ELSE <<>>

\* SetEmbeddedArt(TagLib::ID3v2::Tag *, ...)
SetEmbeddedArtID3v2(frames, data, mime_type) ==
  LET rest == RemoveFrames(frames, "APIC")
  IN IF Len(data) > 0
     THEN rest \o <<[Frame("APIC", "", <<data>>, "") EXCEPT
                       !.ptype = "FrontCover", !.mime = QStringToTagLibString(mime_type)]>>
     ELSE rest

\* a SetEmbeddedArt for MP4 that stores a cover of any other MIME type as
\* JPEG, the value cover_format starts with
SetEmbeddedArtMP4AsJPEG(items, data, mime_type) ==
  IF Len(data) = 0 THEN Del(items, "covr")
  ELSE IF mime_type = "image/png"
  THEN Put(items, "covr", Mp4Covers(<<[format |-> "PNG", data |-> data]>>))
  ELSE Put(items, "covr", Mp4Covers(<<[format |-> "JPEG", data |-> data]>>))

\* SetEmbeddedArt(TagLib::MP4::File *, TagLib::MP4::Tag *, ...)
SetEmbeddedArtMP4(items, data, mime_type) ==
  IF Len(data) = 0 THEN Del(items, "covr")
  ELSE IF mime_type = "image/jpeg"
  THEN Put(items, "covr", Mp4Covers(<<[format |-> "JPEG", data |-> data]>>))
  ELSE IF mime_type = "image/png"
  THEN Put(items, "covr", Mp4Covers(<<[format |-> "PNG", data |-> data]>>))
  ELSE items

----------------------------------------------------------------------------
(* WriteFile.                                                              *)

\* what a writing operation hands back: its Result, the file system after
\* it, the handle counts, and what its calls of save() returned, in order
WriteOutcome(res, fsys, nOpened, nLive, answers) ==
  [result |-> res, fs |-> fsys, opened |-> nOpened, live |-> nLive, saved |-> answers]

\* the process died in the call: no Result, and its handles are gone with it
Crashed == "Crashed"

\* fileref->save() went through, and utimensat() set the timestamps to now
Saved(fsys, filename, file, now) ==
  Put(fsys, filename, [file EXCEPT !.mtime = [valid |-> TRUE, secs |-> now]])

\* the test of the generic setters the wrong way round
ZeroIfSet(v) == IF v <= 0 THEN v ELSE 0

\* a year or track as the generic setters take it
ZeroIfUnset(v) == IF v <= 0 THEN 0 ELSE v

\* the generic setters of WriteFile (save_tags); the comment of a file with
\* an ID3v2 tag lives in its COMM frames
SetGenericTag(file, sng) ==
  LET t == [title |-> StdStringToTagLibString(sng.title),
            artist |-> StdStringToTagLibString(sng.artist),
            album |-> StdStringToTagLibString(sng.album),
            genre |-> StdStringToTagLibString(sng.genre),
            comment |-> StdStringToTagLibString(sng.comment),
            year |-> ZeroIfUnset(sng.year), track |-> ZeroIfUnset(sng.track)]
  IN IF file.cls \in {"MPEG", "WAV"}
     THEN [file EXCEPT !.tag = t, !.id3.frames = SetComment(@, t.comment)]
     ELSE [file EXCEPT !.tag = t]

\* LoadCoverFromRequest (TagReaderBase): the cover the request carries
LoadCoverFromRequest(request) == request.cover

\* the Vorbis comment part of WriteFile
WriteXiph(fields, request) ==
  LET tags(f) == IF request.save_tags THEN SetVorbisComments(f, request.metadata) ELSE f
      playcount(f) == IF request.save_playcount THEN SetPlaycountXiph(f, request.metadata.playcount) ELSE f
      rating(f) == IF request.save_rating THEN SetRatingXiph(f, request.metadata.rating) ELSE f
  IN rating(playcount(tags(fields)))

\* the APE part with the playcount written whatever save_playcount says
WriteAPEUngated(items, request) ==
  LET tags(i) == IF request.save_tags THEN SaveAPETag(i, request.metadata) ELSE i
      rating(i) == IF request.save_rating THEN SetRatingAPE(i, request.metadata.rating) ELSE i
  IN rating(SetPlaycountAPE(tags(items), request.metadata.playcount))

\* the APE part of WriteFile (WavPack, APE, MPC)
WriteAPE(items, request) ==
  LET tags(i) == IF request.save_tags THEN SaveAPETag(i, request.metadata) ELSE i
      playcount(i) == IF request.save_playcount THEN SetPlaycountAPE(i, request.metadata.playcount) ELSE i
      rating(i) == IF request.save_rating THEN SetRatingAPE(i, request.metadata.rating) ELSE i
  IN rating(playcount(tags(items)))

\* the ID3v2 part of WriteFile (MPEG, WAV)
WriteID3v2(frames, request) ==
  LET tags(f) == IF request.save_tags THEN SaveID3v2Tag(f, request.metadata) ELSE f
      playcount(f) == IF request.save_playcount THEN SetPlaycountID3v2(f, request.metadata.playcount) ELSE f
      rating(f) == IF request.save_rating THEN SetRatingID3v2(f, request.metadata.rating) ELSE f
      withCover(f, cover) == IF request.save_cover THEN SetEmbeddedArtID3v2(f, cover.data, cover.mime_type) ELSE f
  IN withCover(rating(playcount(tags(frames))), LoadCoverFromRequest(request))

\* an MP4 writer that stores the disc number as it is given, with no guard
WriteMP4AsGiven(items, request) ==
  LET sng == request.metadata
      tags(i) ==
        IF request.save_tags
        THEN Put(Put(Put(Put(Put(Put(i,
               "disk", Mp4Int(sng.disc)),
               "(c)wrt", Mp4Strings(<<Utf8Decode(sng.composer)>>)),
               "(c)grp", Mp4Strings(<<Utf8Decode(sng.grouping)>>)),
               "(c)lyr", Mp4Strings(<<Utf8Decode(sng.lyrics)>>)),
               "aART", Mp4Strings(<<Utf8Decode(sng.albumartist)>>)),
               "cpil", Mp4Bool(sng.compilation))
        ELSE i
      playcount(i) == IF request.save_playcount THEN SetPlaycountMP4(i, sng.playcount) ELSE i
      rating(i) == IF request.save_rating THEN SetRatingMP4(i, sng.rating) ELSE i
      withCover(i, cover) == IF request.save_cover THEN SetEmbeddedArtMP4(i, cover.data, cover.mime_type) ELSE i
  IN withCover(rating(playcount(tags(items))), LoadCoverFromRequest(request))

\* the MP4 part of WriteFile
WriteMP4(items, request) ==
  LET sng == request.metadata
      tags(i) ==
        IF request.save_tags
        THEN Put(Put(Put(Put(Put(Put(i,
               "disk", Mp4Int(IF sng.disc <= 0 - 1 THEN 0 ELSE sng.disc)),
               "(c)wrt", Mp4Strings(<<Utf8Decode(sng.composer)>>)),
               "(c)grp", Mp4Strings(<<Utf8Decode(sng.grouping)>>)),
               "(c)lyr", Mp4Strings(<<Utf8Decode(sng.lyrics)>>)),
               "aART", Mp4Strings(<<Utf8Decode(sng.albumartist)>>)),
               "cpil", Mp4Bool(sng.compilation))
        ELSE i
      playcount(i) == IF request.save_playcount THEN SetPlaycountMP4(i, sng.playcount) ELSE i
      rating(i) == IF request.save_rating THEN SetRatingMP4(i, sng.rating) ELSE i
      withCover(i, cover) == IF request.save_cover THEN SetEmbeddedArtMP4(i, cover.data, cover.mime_type) ELSE i
  IN withCover(rating(playcount(tags(items))), LoadCoverFromRequest(request))

\* the tag changes of WriteFile, up to the save
WriteTags(file, request) ==
  LET pics(f0, cover) ==
        IF request.save_cover
        THEN SetEmbeddedArtXiph(f0.pics, cover.data, cover.mime_type)
        ELSE f0.pics
      xiph(f0) == WriteXiph(f0.xiph.fields, request)
      format(f0) ==
        CASE f0.cls = "FLAC" ->
               [f0 EXCEPT !.xiph = [present |-> TRUE, fields |-> xiph(f0)],
                          !.pics = pics(f0, LoadCoverFromRequest(request))]
          [] f0.cls \in {"WavPack", "APE", "MPC"} ->
               [f0 EXCEPT !.ape = [present |-> TRUE, items |-> WriteAPE(f0.ape.items, request)]]
          [] f0.cls \in {"MPEG", "WAV"} ->
               [f0 EXCEPT !.id3 = [present |-> TRUE, frames |-> WriteID3v2(f0.id3.frames, request)]]
          [] f0.cls = "MP4" /\ f0.mp4.present ->
               [f0 EXCEPT !.mp4.items = WriteMP4(f0.mp4.items, request)]
          [] f0.cls \in XiphTagClasses /\ f0.hasTag ->
               [f0 EXCEPT !.xiph.fields = xiph(f0), !.pics = pics(f0, LoadCoverFromRequest(request))]
          [] OTHER -> f0
  IN format(IF request.save_tags THEN SetGenericTag(file, request.metadata) ELSE file)

\* TagReaderTagLib::WriteFile; saveOk is what fileref->save() returns
WriteFile(filename, request, fsys, now, handles, saveOk) ==
  IF filename = "" THEN WriteOutcome(FilenameMissing, fsys, 0, handles, <<>>)
  ELSE IF filename \notin DOMAIN fsys THEN WriteOutcome(FileDoesNotExist, fsys, 0, handles, <<>>)
  ELSE LET file == fsys[filename]
           nOpen == IF file.open = "nullptr" THEN 0 ELSE 1
           after == IF nOpen = 0 THEN handles ELSE Release(handles + 1)
       IN IF OpenFails(file) THEN WriteOutcome(FileOpenError, fsys, nOpen, after, <<>>)
          ELSE IF request.save_tags /\ ~file.hasTag
          THEN WriteOutcome(Crashed, fsys, nOpen, 0, <<>>)
          ELSE IF saveOk
          THEN WriteOutcome(Success, Saved(fsys, filename, WriteTags(file, request), now), nOpen, after,
                            <<saveOk>>)
          ELSE WriteOutcome(FileSaveError, fsys, nOpen, after, <<saveOk>>)

----------------------------------------------------------------------------
(* LoadEmbeddedArt and SaveEmbeddedArt.                                    *)

\* what LoadEmbeddedArt hands back: its Result, the output buffer, the
\* handle counts
ArtOutcome(res, data, nOpened, nLive) ==
  [result |-> res, art |-> data, opened |-> nOpened, live |-> nLive]

\* QByteArray::fromBase64 on the texts the files carry; a text that is not
\* base64 decodes to nothing
FromBase64(text) ==
  CASE text = "SlBH" -> "JPG"
    [] text = "UE5H" -> "PNG"
    [] OTHER -> ""

\* TagReaderTagLib::LoadEmbeddedAPEArt: what follows the first NUL of the
\* binary item; the NUL is written "|"
LoadEmbeddedAPEArt(map) ==
  IF Has(map, "COVER ART (FRONT)")
  THEN LET data == map["COVER ART (FRONT)"].bin
           pos == IndexOf(data, "|") + 1
       IN IF pos > 0 /\ pos < Len(data) THEN SubSeq(data, pos + 1, Len(data)) ELSE ""
  ELSE ""

\* the picture loops of LoadEmbeddedArt: the data of the first front cover
\* that has data, or nothing
FirstFrontCover(pics) ==
  IF HasFrontCover(pics)
  THEN <<pics[CHOOSE i \in 1..Len(pics) :
                /\ pics[i].type = "FrontCover" /\ Len(pics[i].data) > 0
                /\ \A j \in 1..(i - 1) : ~(pics[j].type = "FrontCover" /\ Len(pics[j].data) > 0)].data>>
  ELSE <<>>

\* the buffer LoadEmbeddedArt leaves for an opened file, data0 being what
\* the caller passed in
LoadOpened(file, data0) ==
  CASE file.cls = "FLAC" ->
         IF file.xiph.present /\ Len(FirstFrontCover(file.pics)) > 0
         THEN FirstFrontCover(file.pics)[1] ELSE data0
    [] file.cls \in {"WavPack", "APE", "MPC"} ->
         IF file.ape.present THEN LoadEmbeddedAPEArt(file.ape.items) ELSE data0
    [] file.cls \in XiphTagClasses /\ file.hasTag ->
         IF Len(FirstFrontCover(file.pics)) > 0 THEN FirstFrontCover(file.pics)[1]
         ELSE IF Has(file.xiph.fields, "COVERART")
         THEN FromBase64(Join(file.xiph.fields["COVERART"], " "))
         ELSE data0
    [] file.cls = "MPEG" ->
         IF HasFrame(file.id3.frames, "APIC")
         THEN FrontFrame(file.id3.frames, "APIC").vals[1] ELSE data0
    [] file.cls = "MP4" ->
         IF file.mp4.present /\ Has(file.mp4.items, "covr")
            /\ Len(file.mp4.items["covr"].covers) > 0
         THEN file.mp4.items["covr"].covers[1].data ELSE data0
    [] OTHER -> data0

\* a LoadEmbeddedArt without the QFile::exists test: the open is tried
LoadUnchecked(filename, data0, fsys, handles) ==
  IF filename = "" THEN ArtOutcome(FilenameMissing, data0, 0, handles)
  ELSE IF filename \notin DOMAIN fsys THEN ArtOutcome(FileOpenError, data0, 1, Release(handles + 1))
  ELSE ArtOutcome(Success, LoadOpened(fsys[filename], data0), 1, Release(handles + 1))

\* TagReaderTagLib::LoadEmbeddedArt
LoadEmbeddedArt(filename, data0, fsys, handles) ==
  IF filename = "" THEN ArtOutcome(FilenameMissing, data0, 0, handles)
  ELSE IF filename \notin DOMAIN fsys THEN ArtOutcome(FileDoesNotExist, data0, 0, handles)
  ELSE LET file == fsys[filename]
           nOpen == IF file.open = "nullptr" THEN 0 ELSE 1
           after == IF nOpen = 0 THEN handles ELSE Release(handles + 1)
       IN IF OpenFails(file) THEN ArtOutcome(FileOpenError, data0, nOpen, after)
          ELSE ArtOutcome(Success, LoadOpened(file, data0), nOpen, after)

\* the classes SaveEmbeddedArt has a branch for
ArtClasses(file) ==
  \/ file.cls \in {"FLAC", "MPEG", "MP4"}
  \/ file.cls \in XiphTagClasses /\ file.hasTag

\* the tag changes of SaveEmbeddedArt, up to the save
SaveArtTags(file, cover) ==
  CASE file.cls = "FLAC" ->
         [file EXCEPT !.xiph.present = TRUE,
                      !.pics = SetEmbeddedArtXiph(@, cover.data, cover.mime_type)]
    [] file.cls \in XiphTagClasses /\ file.hasTag ->
         [file EXCEPT !.pics = SetEmbeddedArtXiph(@, cover.data, cover.mime_type)]
    [] file.cls = "MPEG" ->
         [file EXCEPT !.id3 = [present |-> TRUE,
                               frames |-> SetEmbeddedArtID3v2(file.id3.frames, cover.data, cover.mime_type)]]
    [] file.cls = "MP4" /\ file.mp4.present ->
         [file EXCEPT !.mp4.items = SetEmbeddedArtMP4(@, cover.data, cover.mime_type)]
    [] OTHER -> file

\* TagReaderTagLib::SaveEmbeddedArt
SaveEmbeddedArt(filename, request, fsys, now, handles, saveOk) ==
  IF filename = "" THEN WriteOutcome(FilenameMissing, fsys, 0, handles, <<>>)
  ELSE IF filename \notin DOMAIN fsys THEN WriteOutcome(FileDoesNotExist, fsys, 0, handles, <<>>)
  ELSE LET file == fsys[filename]
           nOpen == IF file.open = "nullptr" THEN 0 ELSE 1
           after == IF nOpen = 0 THEN handles ELSE Release(handles + 1)
       IN IF OpenFails(file) THEN WriteOutcome(FileOpenError, fsys, nOpen, after, <<>>)
          ELSE IF ~ArtClasses(file) THEN WriteOutcome(Unsupported, fsys, nOpen, after, <<>>)
          ELSE IF saveOk
          THEN WriteOutcome(Success,
                 Saved(fsys, filename, SaveArtTags(file, LoadCoverFromRequest(request)), now),
                 nOpen, after, <<saveOk>>)
          ELSE WriteOutcome(FileSaveError, fsys, nOpen, after, <<saveOk>>)

----------------------------------------------------------------------------
(* SaveSongPlaycountToFile and SaveSongRatingToFile.                       *)

\* the classes the two operations have a branch for
CountClasses(file) ==
  \/ file.cls \in {"FLAC", "WavPack", "APE", "MPEG", "MP4", "MPC", "ASF"}
  \/ file.cls \in XiphTagClasses /\ file.hasTag

\* the tag changes of SaveSongPlaycountToFile, up to the save
SavePlaycountTags(file, playcount) ==
  CASE file.cls = "FLAC" ->
         [file EXCEPT !.xiph = [present |-> TRUE,
                                fields |-> SetPlaycountXiph(file.xiph.fields, playcount)]]
    [] file.cls \in {"WavPack", "APE", "MPC"} ->
         [file EXCEPT !.ape = [present |-> TRUE,
                               items |-> SetPlaycountAPE(file.ape.items, playcount)]]
    [] file.cls \in XiphTagClasses /\ file.hasTag ->
         [file EXCEPT !.xiph.fields = SetPlaycountXiph(@, playcount)]
    [] file.cls = "MPEG" ->
         [file EXCEPT !.id3 = [present |-> TRUE,
                               frames |-> SetPlaycountID3v2(file.id3.frames, playcount)]]
    [] file.cls = "MP4" /\ file.mp4.present ->
         [file EXCEPT !.mp4.items = SetPlaycountMP4(@, playcount)]
    [] file.cls = "ASF" /\ file.asf.present /\ playcount > 0 ->
         [file EXCEPT !.asf.attrs = AddAttribute(@, "FMPS/Playcount",
                                                 QStringToTagLibString(Number(playcount)))]
    [] OTHER -> file

\* TagReaderTagLib::SaveSongPlaycountToFile
SaveSongPlaycountToFile(filename, playcount, fsys, now, handles, saveOk) ==
  IF filename = "" THEN WriteOutcome(FilenameMissing, fsys, 0, handles, <<>>)
  ELSE IF filename \notin DOMAIN fsys THEN WriteOutcome(FileDoesNotExist, fsys, 0, handles, <<>>)
  ELSE LET file == fsys[filename]
           nOpen == IF file.open = "nullptr" THEN 0 ELSE 1
           after == IF nOpen = 0 THEN handles ELSE Release(handles + 1)
       IN IF OpenFails(file) THEN WriteOutcome(FileOpenError, fsys, nOpen, after, <<>>)
          ELSE IF ~CountClasses(file) THEN WriteOutcome(Unsupported, fsys, nOpen, after, <<>>)
          ELSE IF saveOk
          THEN WriteOutcome(Success,
                 Saved(fsys, filename, SavePlaycountTags(file, playcount), now), nOpen, after, <<saveOk>>)
          ELSE WriteOutcome(FileSaveError, fsys, nOpen, after, <<saveOk>>)

\* the tag changes of SaveSongRatingToFile, up to the save
SaveRatingTags(file, rating) ==
  CASE file.cls = "FLAC" ->
         [file EXCEPT !.xiph = [present |-> TRUE,
                                fields |-> SetRatingXiph(file.xiph.fields, rating)]]
    [] file.cls \in {"WavPack", "APE", "MPC"} ->
         [file EXCEPT !.ape = [present |-> TRUE,
                               items |-> SetRatingAPE(file.ape.items, rating)]]
    [] file.cls \in XiphTagClasses /\ file.hasTag ->
         [file EXCEPT !.xiph.fields = SetRatingXiph(@, rating)]
    [] file.cls = "MPEG" ->
         [file EXCEPT !.id3 = [present |-> TRUE,
                               frames |-> SetRatingID3v2(file.id3.frames, rating)]]
    [] file.cls = "MP4" /\ file.mp4.present ->
         [file EXCEPT !.mp4.items = SetRatingMP4(@, rating)]
    [] file.cls = "ASF" /\ file.asf.present ->
         [file EXCEPT !.asf.attrs = SetRatingASF(@, rating)]
    [] OTHER -> file

\* TagReaderTagLib::SaveSongRatingToFile
SaveSongRatingToFile(filename, rating, fsys, now, handles, saveOk) ==
  IF filename = "" THEN WriteOutcome(FilenameMissing, fsys, 0, handles, <<>>)
  ELSE IF filename \notin DOMAIN fsys THEN WriteOutcome(FileDoesNotExist, fsys, 0, handles, <<>>)
  ELSE IF rating < 0 THEN WriteOutcome(Success, fsys, 0, handles, <<>>)
  ELSE LET file == fsys[filename]
           nOpen == IF file.open = "nullptr" THEN 0 ELSE 1
           after == IF nOpen = 0 THEN handles ELSE Release(handles + 1)
       IN IF OpenFails(file) THEN WriteOutcome(FileOpenError, fsys, nOpen, after, <<>>)
          ELSE IF ~CountClasses(file) THEN WriteOutcome(Unsupported, fsys, nOpen, after, <<>>)
          ELSE IF saveOk
          THEN WriteOutcome(Success,
                 Saved(fsys, filename, SaveRatingTags(file, rating), now), nOpen, after, <<saveOk>>)
          ELSE WriteOutcome(FileSaveError, fsys, nOpen, after, <<saveOk>>)

----------------------------------------------------------------------------
(* The files the model starts from.                                        *)

Tag(title, artist, album, genre, comment, year, track) ==
  [title |-> title, artist |-> artist, album |-> album, genre |-> genre,
   comment |-> comment, year |-> year, track |-> track]

EmptyTag == Tag("", "", "", "", "", 0, 0)

FloydTag == Tag("Time", "Pink Floyd", "Dark Side", "Rock", "", 1973, 4)

\* a file of a class as TagLib opens it, with nothing in its tags
BlankFile(cls) ==
  [cls |-> cls, open |-> "ok", haveOptional |-> TRUE, hasTag |-> TRUE, hasProps |-> TRUE,
   bitrate |-> 320, samplerate |-> 44100, lengthms |-> 3, bits |-> 16, size |-> 9,
   mtime |-> [valid |-> TRUE, secs |-> 5], btime |-> [valid |-> FALSE, secs |-> 0],
   tag |-> EmptyTag, pics |-> <<>>,
   xiph |-> [present |-> cls \in XiphTagClasses, fields |-> NoItems],
   ape |-> [present |-> FALSE, items |-> NoItems],
   id3 |-> [present |-> FALSE, frames |-> <<>>],
   mp4 |-> [present |-> cls = "MP4", items |-> NoItems],
   asf |-> [present |-> cls = "ASF", attrs |-> NoItems]]

Tagged(cls) == [BlankFile(cls) EXCEPT !.tag = FloydTag]

WithFields(file, fields) == [file EXCEPT !.xiph = [present |-> TRUE, fields |-> fields]]

WithItems(file, items) == [file EXCEPT !.ape = [present |-> TRUE, items |-> items]]

WithFrames(file, frames) == [file EXCEPT !.id3 = [present |-> TRUE, frames |-> frames]]

WithAtoms(file, items) == [file EXCEPT !.mp4 = [present |-> TRUE, items |-> items]]

WithAttrs(file, attrs) == [file EXCEPT !.asf = [present |-> TRUE, attrs |-> attrs]]

\* a map from a sequence of <<key, value>> pairs
RECURSIVE MapOf(_)
MapOf(pairs) ==
  IF Len(pairs) = 0 THEN NoItems
  ELSE Put(MapOf(SubSeq(pairs, 1, Len(pairs) - 1)), pairs[Len(pairs)][1], pairs[Len(pairs)][2])

\* a POPM frame
Popm(rating, counter) == [Frame("POPM", "", <<>>, "") EXCEPT !.rating = rating, !.counter = counter]

\* an APIC frame
Apic(type, data) == [Frame("APIC", "", <<data>>, "") EXCEPT !.ptype = type, !.mime = "image/jpeg"]

\* one file of every class, tagged
PlainFiles == {Tagged(cls) : cls \in KnownClasses \cup OptionalClasses \cup {"Other"}}

\* files TagLib cannot open, or opens only in part
BrokenFiles ==
  {[Tagged("MPEG") EXCEPT !.open = "isNull"],
   [Tagged("FLAC") EXCEPT !.open = "nullptr"],
   [BlankFile("AIFF") EXCEPT !.hasTag = FALSE],
   [BlankFile("Other") EXCEPT !.hasTag = FALSE, !.hasProps = FALSE],
   [BlankFile("OggVorbis") EXCEPT !.hasTag = FALSE, !.xiph.present = FALSE],
   [Tagged("DSF") EXCEPT !.haveOptional = FALSE],
   [Tagged("TrueAudio") EXCEPT !.hasProps = FALSE, !.tag.year = 0, !.tag.track = 0,
                                !.mtime = [valid |-> FALSE, secs |-> 0]],
   [Tagged("MP4") EXCEPT !.mp4.present = FALSE, !.bitrate = 0, !.bits = 0,
                          !.btime = [valid |-> TRUE, secs |-> 3]]}

\* files that say, or only suggest, that they belong to a compilation
CompilationFiles ==
  {[Tagged("AIFF") EXCEPT !.tag.artist = "various artists"],
   [Tagged("AIFF") EXCEPT !.tag.artist = "Various Artists"],
   WithFields([Tagged("FLAC") EXCEPT !.tag.artist = "various artists"],
              MapOf(<< <<"COMPILATION", <<"0">> >> >>)),
   WithFields(Tagged("OggVorbis"),
              MapOf(<< <<"ALBUMARTIST", <<"various artists">> >>, <<"DISCNUMBER", <<"2/3">> >> >>)),
   WithFields(Tagged("OggOpus"), MapOf(<< <<"COMPILATION", <<" 1 ">> >> >>)),
   WithFrames(Tagged("MPEG"),
              << Frame("TCMP", "", <<"1x">>, "Latin1"), Frame("TPE2", "", <<"VARIOUS ARTISTS">>, "UTF8") >>),
   WithItems(Tagged("APE"), MapOf(<< <<"COMPILATION", ApeItem(<<"1">>)>>, <<"DISC", ApeItem(<<"0">>)>> >>)),
   WithAtoms([Tagged("MP4") EXCEPT !.tag.artist = "various artists"],
             MapOf(<< <<"cpil", Mp4Bool(FALSE)>>, <<"disk", Mp4Int(0 - 1)>> >>))}

\* the FMPS_Playcount frames of a tag that carries the description MaxDup times
DupFrames == [i \in 1..MaxDup |-> Frame("TXXX", "FMPS_Playcount", <<Number(i)>>, "UTF8")]

\* files with statistics, covers, duplicate frames and legacy keys in them
RichFiles ==
  {WithFrames(Tagged("MPEG"), DupFrames \o <<Popm(64, 0)>>),
   WithFrames(Tagged("MPEG"),
              << Frame("TXXX", "FMPS_Rating", <<"0.5">>, "UTF8"), Popm(255, 7),
                 Apic("Other", ""), Apic("FrontCover", "JPG"),
                 Frame("TPOS", "", <<"2/2">>, "UTF8"), Frame("TPOS", "", <<"9">>, "UTF8"),
                 Frame("COMM", "iTunNORM", <<"x">>, "UTF8"), Frame("TDOR", "", <<"1970-01">>, "UTF8") >>),
   WithFrames(Tagged("WAV"), << Popm(5, 0), Frame("TORY", "", <<"0">>, "Latin1") >>),
   [WithFields(Tagged("FLAC"),
               MapOf(<< <<"ALBUM ARTIST", <<"Old">> >>, <<"UNSYNCEDLYRICS", <<"la">> >>,
                        <<"CONTENT GROUP", <<"cg">> >>, <<"FMPS_PLAYCOUNT", <<"-3">> >>,
                        <<"FMPS_RATING", <<"0.75">> >>, <<"ORIGINALDATE", <<"0000">> >> >>))
      EXCEPT !.pics = << Picture("Other", "PNG", "image/png"), Picture("FrontCover", "JPG", "image/jpeg") >>],
   WithFields(Tagged("OggFLAC"), MapOf(<< <<"COVERART", <<"SlBH">> >>, <<"FMPS_PLAYCOUNT", <<"2">> >> >>)),
   WithItems(Tagged("WavPack"),
             MapOf(<< <<"COVER ART (FRONT)", [vals |-> <<>>, bin |-> "c.jpg|JPG"]>>,
                      <<"FMPS_PLAYCOUNT", ApeItem(<<"1">>)>>, <<"FMPS_RATING", ApeItem(<<"1">>)>>,
                      <<"ALBUM ARTIST", ApeItem(<<"Old">>)>> >>)),
   WithAtoms(Tagged("MP4"),
             MapOf(<< <<"covr", Mp4Covers(<<[format |-> "PNG", data |-> "PNG"]>>)>>,
                      <<kMP4_FMPS_Playcount_ID, Mp4Strings(<<"2">>)>>,
                      <<kMP4_FMPS_Rating_ID, Mp4Strings(<<"0.9">>)>>,
                      <<"disk", Mp4Int(2)>> >>)),
   WithAttrs(Tagged("ASF"),
             MapOf(<< <<"FMPS/Playcount", <<"1">> >>, <<"WM/OriginalReleaseYear", <<"1999">> >> >>))}

InitialFiles == PlainFiles \cup BrokenFiles \cup CompilationFiles \cup RichFiles

----------------------------------------------------------------------------
(* The arguments the operations are called with.                           *)

\* the path of the file on disk, and a path nothing is at
ThePath == "/m/a"

MissingPath == "/m/none"

Paths == {"", ThePath, MissingPath}

\* QDateTime::currentSecsSinceEpoch() when the operations run
Clock == {8}

\* records a caller hands to ReadFile: a fresh one, and one used before
UsedSong == [FreshSong EXCEPT !.title = "Old", !.playcount = 5, !.rating = 30, !.disc = 0 - 4]

InputSongs == {FreshSong, UsedSong}

\* metadata a caller asks to have written
FloydSong ==
  [FreshSong EXCEPT !.title = "Money", !.artist = "Pink Floyd", !.album = "Dark Side",
                    !.genre = "Rock", !.year = 1973, !.track = 6, !.albumartist = "Pink Floyd",
                    !.composer = "Waters", !.disc = 1, !.comment = "c", !.lyrics = "la"]

OmegaSong ==
  [FreshSong EXCEPT !.title = "{}mega", !.artist = "Various Artists", !.album = "{}",
                    !.genre = "Pop", !.year = 2001, !.track = 12, !.compilation = TRUE,
                    !.performer = "{}", !.grouping = "g"]

Songs == {FloydSong, OmegaSong}

\* ratings in hundredths: not set, 0, and the canonical 0.1 .. 1.0
Ratings == {0, 10, 25, 50, 75, 90, 100}

Playcounts == 0..MaxPlaycount

NoCover == [data |-> "", mime_type |-> ""]

Covers == {NoCover, [data |-> "JPG", mime_type |-> "image/jpeg"],
           [data |-> "GIF", mime_type |-> "image/gif"]}

Request(metadata, tags, playcount, rating, cover, c) ==
  [metadata |-> metadata, save_tags |-> tags, save_playcount |-> playcount,
   save_rating |-> rating, save_cover |-> cover, cover |-> c]

NoRequest == Request(FreshSong, FALSE, FALSE, FALSE, FALSE, NoCover)

\* the requests WriteFile is called with: each flag alone over its values,
\* all flags together, and none
WriteRequests ==
  {Request(sng, TRUE, FALSE, FALSE, FALSE, NoCover) : sng \in Songs}
  \cup {Request([FreshSong EXCEPT !.playcount = n], FALSE, TRUE, FALSE, FALSE, NoCover) : n \in Playcounts}
  \cup {Request([FreshSong EXCEPT !.rating = r], FALSE, FALSE, TRUE, FALSE, NoCover) : r \in {0, 50}}
  \cup {Request(FreshSong, FALSE, FALSE, FALSE, TRUE, c) : c \in Covers}
  \cup {Request([FloydSong EXCEPT !.playcount = 1, !.rating = 50], TRUE, TRUE, TRUE, TRUE,
                [data |-> "JPG", mime_type |-> "image/jpeg"]),
        NoRequest}

\* the last operation, as the state keeps it
Op(name, filename, request, playcount, rating, fresh) ==
  [name |-> name, filename |-> filename, request |-> request, playcount |-> playcount,
   rating |-> rating, fresh |-> fresh]

\* the threads a caller may run operations on
Callers == {1, 2}

\* a caller that has no call under way
NoCall ==
  [pc |-> "idle", name |-> "none", filename |-> "", request |-> NoRequest, playcount |-> 0,
   fileref |-> BlankFile("Other"), base |-> BlankFile("Other"), result |-> Success, saved |-> <<>>]

----------------------------------------------------------------------------
(* The state machine: one file on disk, the operations called one after    *)
(* the other.                                                              *)

Init ==
  /\ \E file \in InitialFiles : fs = [p \in {ThePath} |-> file]
  /\ song = FreshSong
  /\ art = ""
  /\ op = Op("none", "", NoRequest, 0, 0, TRUE)
  /\ result = Success
  /\ opened = 0
  /\ live = 0
  /\ saves = 0
  /\ saved = <<>>
  /\ calls = [c \in Callers |-> NoCall]

ReadFileAct ==
  \E filename \in Paths, sng \in InputSongs, now \in Clock :
    LET returned(out) ==
          /\ song' = out.song
          /\ result' = out.result
          /\ opened' = out.opened
          /\ live' = out.live
    IN /\ returned(ReadFile(filename, sng, fs, now, live))
       /\ art' = ""
       /\ op' = Op("ReadFile", filename, NoRequest, 0, 0, sng = FreshSong)
       /\ saved' = <<>>
       /\ UNCHANGED <<fs, saves, calls>>

\* what every writing operation does with its outcome; the model follows
\* them until MaxSaves of them have changed the file
Written(out, newOp) ==
  /\ saves < MaxSaves
  /\ fs' = out.fs
  /\ saves' = IF out.fs = fs THEN saves ELSE saves + 1
  /\ result' = out.result
  /\ opened' = out.opened
  /\ live' = out.live
  /\ saved' = out.saved
  /\ song' = FreshSong
  /\ art' = ""
  /\ op' = newOp
  /\ UNCHANGED calls

WriteFileAct(requests) ==
  \E filename \in Paths, request \in requests, now \in Clock, saveOk \in BOOLEAN :
    Written(WriteFile(filename, request, fs, now, live, saveOk),
            Op("WriteFile", filename, request, 0, 0, TRUE))

LoadEmbeddedArtAct ==
  \E filename \in Paths, data0 \in {"", "OLD"} :
    LET returned(out) ==
          /\ art' = out.art
          /\ result' = out.result
          /\ opened' = out.opened
          /\ live' = out.live
    IN /\ returned(LoadEmbeddedArt(filename, data0, fs, live))
       /\ song' = FreshSong
       /\ op' = Op("LoadEmbeddedArt", filename, NoRequest, 0, 0, data0 = "")
       /\ saved' = <<>>
       /\ UNCHANGED <<fs, saves, calls>>

SaveEmbeddedArtAct ==
  \E filename \in Paths, c \in Covers, now \in Clock, saveOk \in BOOLEAN :
    LET request == Request(FreshSong, FALSE, FALSE, FALSE, TRUE, c)
    IN Written(SaveEmbeddedArt(filename, request, fs, now, live, saveOk),
               Op("SaveEmbeddedArt", filename, request, 0, 0, TRUE))

\* an ASF attribute is not let grow beyond MaxAttr values
AttrRoom(fsys, filename, name) ==
  filename \in DOMAIN fsys /\ Has(fsys[filename].asf.attrs, name)
    => Len(fsys[filename].asf.attrs[name]) < MaxAttr

SaveSongPlaycountToFileAct ==
  \E filename \in Paths, playcount \in Playcounts, now \in Clock, saveOk \in BOOLEAN :
    /\ AttrRoom(fs, filename, "FMPS/Playcount")
    /\ Written(SaveSongPlaycountToFile(filename, playcount, fs, now, live, saveOk),
               Op("SaveSongPlaycountToFile", filename, NoRequest, playcount, 0, TRUE))

SaveSongRatingToFileAct(ratings) ==
  \E filename \in Paths, rating \in ratings, now \in Clock, saveOk \in BOOLEAN :
    /\ AttrRoom(fs, filename, "FMPS/Rating")
    /\ Written(SaveSongRatingToFile(filename, rating, fs, now, live, saveOk),
               Op("SaveSongRatingToFile", filename, NoRequest, 0, rating, TRUE))

Next ==
  \/ ReadFileAct
  \/ WriteFileAct(WriteRequests)
  \/ LoadEmbeddedArtAct
  \/ SaveEmbeddedArtAct
  \/ SaveSongPlaycountToFileAct
  \/ SaveSongRatingToFileAct({0 - 100, 0, 50})

Spec == Init /\ [][Next]_vars

\* The files with an ID3v2 tag, every canonical rating written to them and
\* read back.
RatingRequests ==
  {Request([FreshSong EXCEPT !.rating = r], FALSE, FALSE, TRUE, FALSE, NoCover) : r \in Ratings}

InitRating ==
  /\ \E file \in {f \in InitialFiles : f.cls \in {"MPEG", "WAV"} /\ f.open = "ok"} :
       fs = [p \in {ThePath} |-> file]
  /\ song = FreshSong
  /\ art = ""
  /\ op = Op("none", "", NoRequest, 0, 0, TRUE)
  /\ result = Success
  /\ opened = 0
  /\ live = 0
  /\ saves = 0
  /\ saved = <<>>
  /\ calls = [c \in Callers |-> NoCall]

NextRating ==
  \/ ReadFileAct
  \/ WriteFileAct(RatingRequests)
  \/ SaveSongRatingToFileAct(Ratings)

SpecRating == InitRating /\ [][NextRating]_vars

\* WriteFile with every combination of its four flags, on every file; the
\* metadata differs from what the files hold in every class of field
FlagSong == [FloydSong EXCEPT !.playcount = 2, !.rating = 50]

FlagRequests ==
  {Request(FlagSong, tags, playcount, rating, cover, [data |-> "JPG", mime_type |-> "image/jpeg"]) :
     tags \in BOOLEAN, playcount \in BOOLEAN, rating \in BOOLEAN, cover \in BOOLEAN}

NextFlags == WriteFileAct(FlagRequests)

SpecFlags == Init /\ [][NextFlags]_vars

\* Files as other programs leave them: every pair of a rating text and a
\* playcount text in the FMPS fields of each tag format, the ID3v2 tags with
\* and without a POPM frame next to the user-text frames, and Vorbis comments
\* with one or both keys of each pair of alias keys.
StoredRatings == {"0.5", "1.5", "-0.5", "x"}

StoredPlaycounts == {"2", "-3", "0"}

AliasPairs ==
  {<<"CONTENT GROUP", "GROUPING">>, <<"ALBUMARTIST", "ALBUM ARTIST">>,
   <<"ORIGINALDATE", "ORIGINALYEAR">>, <<"LYRICS", "UNSYNCEDLYRICS">>}

StoredFiles ==
  LET stats(r, p) ==
        {WithFields(Tagged("FLAC"), MapOf(<< <<"FMPS_RATING", <<r>> >>, <<"FMPS_PLAYCOUNT", <<p>> >> >>)),
         WithFields(Tagged("OggOpus"), MapOf(<< <<"FMPS_RATING", <<r>> >>, <<"FMPS_PLAYCOUNT", <<p>> >> >>)),
         WithItems(Tagged("MPC"),
                   MapOf(<< <<"FMPS_RATING", ApeItem(<<r>>)>>, <<"FMPS_PLAYCOUNT", ApeItem(<<p>>)>> >>)),
         WithFrames(Tagged("MPEG"),
                    << Frame("TXXX", "FMPS_Rating", <<r>>, "UTF8"),
                       Frame("TXXX", "FMPS_Playcount", <<p>>, "UTF8") >>),
         WithFrames(Tagged("WAV"),
                    << Popm(128, 7), Frame("TXXX", "FMPS_Rating", <<r>>, "UTF8"),
                       Frame("TXXX", "FMPS_Playcount", <<p>>, "UTF8") >>),
         WithAtoms(Tagged("MP4"),
                   MapOf(<< <<kMP4_FMPS_Rating_ID, Mp4Strings(<<r>>)>>,
                            <<kMP4_FMPS_Playcount_ID, Mp4Strings(<<p>>)>> >>)),
         WithAttrs(Tagged("ASF"), MapOf(<< <<"FMPS/Rating", <<r>> >>, <<"FMPS/Playcount", <<p>> >> >>))}
      first(pair) == WithFields(Tagged("OggVorbis"), MapOf(<< <<pair[1], <<"1971 a">> >> >>))
      second(pair) == WithFields(Tagged("OggVorbis"), MapOf(<< <<pair[2], <<"1982 b">> >> >>))
      both(pair) ==
        WithFields(Tagged("FLAC"), MapOf(<< <<pair[1], <<"1971 a">> >>, <<pair[2], <<"1982 b">> >> >>))
  IN UNION {stats(r, p) : r \in StoredRatings, p \in StoredPlaycounts}
     \cup UNION {{first(pair), second(pair), both(pair)} : pair \in AliasPairs}

InitStored ==
  /\ \E file \in StoredFiles : fs = [p \in {ThePath} |-> file]
  /\ song = FreshSong
  /\ art = ""
  /\ op = Op("none", "", NoRequest, 0, 0, TRUE)
  /\ result = Success
  /\ opened = 0
  /\ live = 0
  /\ saves = 0
  /\ saved = <<>>
  /\ calls = [c \in Callers |-> NoCall]

\* ReadFile of these files
SpecStored == InitStored /\ [][ReadFileAct]_vars

----------------------------------------------------------------------------
(* Callers side by side.  Each call is three steps, as the code has them:  *)
(* the FileRef is made and reads the tags of the file into memory; the     *)
(* mutations change that copy; save() writes the copy to the file and the  *)
(* FileRef goes out of scope.  Nothing in the code orders the steps of one *)
(* call against those of another.                                          *)

OtherPath == "/m/b"

ConcFiles ==
  {Tagged("AIFF"), Tagged("MP4"),
   WithFrames(Tagged("MPEG"), << Popm(64, 1), Frame("TCOM", "", <<"Old">>, "UTF8") >>),
   WithFields(Tagged("FLAC"), MapOf(<< <<"FMPS_RATING", <<"0.75">> >> >>))}

\* the calls: WriteFile with one flag each, and SaveSongPlaycountToFile
ConcCalls ==
  {[NoCall EXCEPT !.name = "WriteFile", !.request = request] :
     request \in {Request(FlagSong, FALSE, TRUE, FALSE, FALSE, NoCover),
                  Request(FlagSong, FALSE, FALSE, TRUE, FALSE, NoCover),
                  Request(FlagSong, TRUE, FALSE, FALSE, FALSE, NoCover)}}
  \cup {[NoCall EXCEPT !.name = "SaveSongPlaycountToFile", !.playcount = 1]}

\* one FileRef kept in the object and used by every call
SharedFileRef(all, c) == all[CHOOSE o \in DOMAIN all : \A x \in DOMAIN all : o <= x].fileref

\* the FileRef of a call: a local of the operation, made by the factory for
\* this call
FileRefOf(all, c) == all[c].fileref

\* the operation called, the validation passed, GetFileRef(filename)
Open(c) ==
  \E call \in ConcCalls, filename \in DOMAIN fs :
    /\ calls[c].pc = "idle"
    /\ calls' = [calls EXCEPT ![c] =
         IF OpenFails(fs[filename])
         THEN [call EXCEPT !.pc = "done", !.filename = filename, !.result = FileOpenError]
         ELSE [call EXCEPT !.pc = "opened", !.filename = filename,
                           !.fileref = fs[filename], !.base = fs[filename]]]
    /\ live' = live + (IF OpenFails(fs[filename]) THEN 0 ELSE 1)
    /\ UNCHANGED <<fs, song, art, op, result, opened, saves, saved>>

\* the mutations of the tags in memory, or the return without a save
Mutate(c) ==
  LET call == calls[c]
      left(res) == /\ calls' = [calls EXCEPT ![c].pc = "done", ![c].result = res]
                   /\ live' = IF res = Crashed THEN 0 ELSE Release(live)
      changed(file) == /\ calls' = [calls EXCEPT ![c].pc = "mutated", ![c].fileref = file]
                       /\ live' = live
  IN /\ call.pc = "opened"
     /\ IF call.name = "WriteFile"
        THEN (IF call.request.save_tags /\ ~FileRefOf(calls, c).hasTag THEN left(Crashed)
              ELSE changed(WriteTags(FileRefOf(calls, c), call.request)))
        ELSE (IF ~CountClasses(FileRefOf(calls, c)) THEN left(Unsupported)
              ELSE changed(SavePlaycountTags(FileRefOf(calls, c), call.playcount)))
     /\ UNCHANGED <<fs, song, art, op, result, opened, saves, saved>>

\* fileref->save(), the Result, and the end of the scope of the FileRef
Save(c) ==
  \E saveOk \in BOOLEAN, now \in Clock :
    /\ calls[c].pc = "mutated"
    /\ fs' = IF saveOk THEN Saved(fs, calls[c].filename, FileRefOf(calls, c), now) ELSE fs
    /\ calls' = [calls EXCEPT ![c].pc = "done", ![c].saved = <<saveOk>>,
                              ![c].result = IF saveOk THEN Success ELSE FileSaveError]
    /\ live' = Release(live)
    /\ UNCHANGED <<song, art, op, result, opened, saves, saved>>

InitConc ==
  /\ \E a \in ConcFiles, b \in ConcFiles : fs = [p \in {ThePath, OtherPath} |-> IF p = ThePath THEN a ELSE b]
  /\ song = FreshSong
  /\ art = ""
  /\ op = Op("none", "", NoRequest, 0, 0, TRUE)
  /\ result = Success
  /\ opened = 0
  /\ live = 0
  /\ saves = 0
  /\ saved = <<>>
  /\ calls = [c \in Callers |-> NoCall]

NextConc == \E c \in Callers : Open(c) \/ Mutate(c) \/ Save(c)

SpecConc == InitConc /\ [][NextConc]_vars

----------------------------------------------------------------------------
(* The frame routines of the ID3v2 writer, each applied on its own to the  *)
(* tag of an MPEG file that TagLib holds in memory: tags with no, one and  *)
(* several frames of one identifier or description, and with no, one and   *)
(* two POPM frames.                                                        *)

\* the identifiers SaveID3v2Tag hands to SetTextFrame
TextFrameIds == {"TPOS", "TCOM", "TIT1", "TOPE", "TPE2", "TCMP"}

\* the descriptions SetPlaycount and SetRating hand to SetUserTextFrame
UserTextDescriptions == {"FMPS_Playcount", "FMPS_Rating"}

ID3v2Tags ==
  LET title == Frame("TIT2", "", <<"T">>, "UTF8")
      text(id, n) ==
        [i \in 1..n |-> Frame(id, IF id = "USLT" THEN "d" ELSE "", <<"Old" \o Number(i)>>,
                              IF i = 1 THEN "Latin1" ELSE "UTF16")]
      user(desc, n) == [i \in 1..n |-> Frame("TXXX", desc, <<Number(i)>>, "UTF8")]
      popm(k) == [i \in 1..k |-> Popm(64 * i, i)]
  IN {<<title>> \o text(id, n) \o popm(k) :
        id \in TextFrameIds \cup {"USLT"}, n \in 0..MaxDup, k \in 0..1}
     \cup {user(desc, n) \o <<title>> \o popm(k) : desc \in UserTextDescriptions, n \in 0..MaxDup, k \in 0..1}
     \cup {<<title>> \o popm(2)}

\* a step of a frame routine, as the state keeps it
FrameOp(name, id, value) ==
  [name |-> name, id |-> id, value |-> value, filename |-> ThePath, request |-> NoRequest,
   playcount |-> 0, rating |-> 0, fresh |-> TRUE]

InitID3v2 ==
  /\ \E frames \in ID3v2Tags : fs = [p \in {ThePath} |-> WithFrames(Tagged("MPEG"), frames)]
  /\ song = FreshSong
  /\ art = ""
  /\ op = Op("none", "", NoRequest, 0, 0, TRUE)
  /\ result = Success
  /\ opened = 0
  /\ live = 0
  /\ saves = 0
  /\ saved = <<>>
  /\ calls = [c \in Callers |-> NoCall]

\* the tag after a routine; the routines are followed MaxSaves deep
Rewritten(frames, newOp) ==
  /\ saves < MaxSaves
  /\ fs' = [fs EXCEPT ![ThePath].id3.frames = frames]
  /\ saves' = saves + 1
  /\ op' = newOp
  /\ UNCHANGED <<song, art, result, opened, live, saved, calls>>

SetTextFrameAct ==
  \E id \in TextFrameIds, value \in {"", "New"} :
    Rewritten(SetTextFrame(id, value, fs[ThePath].id3.frames), FrameOp("SetTextFrame", id, value))

SetUnsyncLyricsFrameAct ==
  \E value \in {"", "New"} :
    Rewritten(SetUnsyncLyricsFrame(value, fs[ThePath].id3.frames),
              FrameOp("SetUnsyncLyricsFrame", "USLT", value))

SetUserTextFrameAct ==
  \E description \in UserTextDescriptions, value \in {"0", "7"} :
    Rewritten(SetUserTextFrame(description, value, fs[ThePath].id3.frames),
              FrameOp("SetUserTextFrame", description, value))

SetPlaycountAct ==
  \E playcount \in {0, 7} :
    Rewritten(SetPlaycountID3v2(fs[ThePath].id3.frames, playcount),
              [FrameOp("SetPlaycount", "POPM", Number(playcount)) EXCEPT !.playcount = playcount])

SetRatingAct ==
  \E rating \in {0, 50} :
    Rewritten(SetRatingID3v2(fs[ThePath].id3.frames, rating),
              [FrameOp("SetRating", "POPM", FloatNumber(rating)) EXCEPT !.rating = rating])

NextID3v2 ==
  \/ SetTextFrameAct
  \/ SetUnsyncLyricsFrameAct
  \/ SetUserTextFrameAct
  \/ SetPlaycountAct
  \/ SetRatingAct

SpecID3v2 == InitID3v2 /\ [][NextID3v2]_vars

\* Cover writes with every kind of cover data: none, the two MIME types the
\* MP4 writer knows, and one it does not.
MimeCovers == Covers \cup {[data |-> "PNG", mime_type |-> "image/png"]}

CoverRequests == {Request(FreshSong, FALSE, FALSE, FALSE, TRUE, c) : c \in MimeCovers}

SaveEmbeddedArtMimeAct ==
  \E filename \in Paths, request \in CoverRequests, now \in Clock, saveOk \in BOOLEAN :
    Written(SaveEmbeddedArt(filename, request, fs, now, live, saveOk),
            Op("SaveEmbeddedArt", filename, request, 0, 0, TRUE))

NextCover == WriteFileAct(CoverRequests) \/ SaveEmbeddedArtMimeAct

SpecCover == Init /\ [][NextCover]_vars

\* WriteFile with save_tags alone, then ReadFile: the metadata written has
\* every disc number from -1 up, and each string both empty and not
TagSongs == {[sng EXCEPT !.disc = d] : sng \in Songs, d \in {0 - 1, 0, 2}}

TagRequests == {Request(sng, TRUE, FALSE, FALSE, FALSE, NoCover) : sng \in TagSongs}

NextTags == WriteFileAct(TagRequests) \/ ReadFileAct

SpecTags == Init /\ [][NextTags]_vars

----------------------------------------------------------------------------
(* Properties.                                                             *)

\* the record the last ReadFile was handed
Input == IF op.fresh THEN FreshSong ELSE UsedSong

\* a record without its housekeeping fields
Extracted(sng) ==
  [sng EXCEPT !.basefilename = "", !.url = "", !.filesize = 0, !.mtime = 0, !.ctime = 0,
              !.lastseen = 0]

\* the last operation was on the file on disk and TagLib opened it
OnOpened == op.filename \in DOMAIN fs /\ fs[op.filename].open = "ok"

\* C1 (as the code has it): ReadFile returns FilenameMissing exactly for the
\* empty path, FileDoesNotExist exactly for a non-empty path with no file,
\* FileOpenError exactly when the open fails or yields a null handle; after
\* the first two the record is untouched, after FileOpenError only the
\* housekeeping fields are set; a handle without a tag interface is no
\* error: the read goes on and leaves the record not valid.
C1_ValidationOrder ==
  op.name = "ReadFile" =>
    /\ result = FilenameMissing <=> op.filename = ""
    /\ result = FileDoesNotExist <=> (op.filename # "" /\ op.filename \notin DOMAIN fs)
    /\ result = FileOpenError <=> (op.filename \in DOMAIN fs /\ fs[op.filename].open # "ok")
    /\ result \in {FilenameMissing, FileDoesNotExist} => song = Input
    /\ result = FileOpenError => Extracted(song) = Extracted(Input)
    /\ (OnOpened /\ ~fs[op.filename].hasTag) =>
         (result \in {Success, Unsupported} /\ song.valid = Input.valid)

\* C1 witness: ReadFile of a file whose handle isNull, into a used record
C1_Witness ==
  /\ op.name = "ReadFile" /\ ~op.fresh /\ op.filename = ThePath
  /\ fs[ThePath].open = "isNull" /\ result = FileOpenError /\ song.title = "Old"

\* C1 as the specification words it: a handle without a tag interface
\* yields FileOpenError too
C1_AsWorded ==
  op.name = "ReadFile" =>
    /\ op.filename = "" => result = FilenameMissing
    /\ (op.filename # "" /\ op.filename \notin DOMAIN fs) => result = FileDoesNotExist
    /\ (op.filename \in DOMAIN fs /\ (fs[op.filename].open # "ok" \/ ~fs[op.filename].hasTag))
         => result = FileOpenError
    /\ result \in {FilenameMissing, FileDoesNotExist, FileOpenError}
         => Extracted(song) = Extracted(Input)

\* C2: every operation returns FilenameMissing for the empty path and
\* FileDoesNotExist for a path with no file, whatever the other arguments,
\* and in both cases opens no handle and leaves the file system as it was.
C2_PathValidation ==
  [][op'.name # "none" =>
       /\ op'.filename = "" => (result' = FilenameMissing /\ opened' = 0 /\ fs' = fs)
       /\ (op'.filename # "" /\ op'.filename \notin DOMAIN fs)
            => (result' = FileDoesNotExist /\ opened' = 0 /\ fs' = fs)]_vars

\* C2 witness: SaveSongRatingToFile with a negative rating and a path
\* nothing is at
C2_Witness ==
  /\ op.name = "SaveSongRatingToFile" /\ op.rating < 0 /\ op.filename = MissingPath
  /\ result = FileDoesNotExist /\ opened = 0

\* no test of the prober matches the class of the file
UnknownClass(file) ==
  /\ file.cls \notin KnownClasses
  /\ ~(file.cls \in OptionalClasses /\ file.haveOptional)

\* one of the eight fields the final normalization covers
Normalized(v) == v = -1 \/ v > 0

AllNormalized(sng) ==
  /\ Normalized(sng.track) /\ Normalized(sng.disc) /\ Normalized(sng.year)
  /\ Normalized(sng.originalyear) /\ Normalized(sng.samplerate) /\ Normalized(sng.bitdepth)
  /\ Normalized(sng.bitrate) /\ Normalized(sng.lastplayed)

\* C3: when ReadFile has opened the file, it returns Unsupported if no test
\* of the prober matches, and then the record has the housekeeping fields,
\* the generic tag fields and the normalization; it returns Success for
\* every other opened file.
C3_UnknownIsUnsupported ==
  (op.name = "ReadFile" /\ OnOpened) =>
    LET file == fs[op.filename]
    IN IF UnknownClass(file)
       THEN /\ result = Unsupported
            /\ song.filetype = UNKNOWN
            /\ song.basefilename = "a" /\ song.filesize = file.size /\ song.lastseen \in Clock
            /\ file.hasTag => (song.valid /\ song.title = Utf8Encode(file.tag.title)
                               /\ song.artist = Utf8Encode(file.tag.artist))
            /\ AllNormalized(song)
       ELSE result = Success /\ song.filetype # UNKNOWN

\* C3 witness: ReadFile of a tagged file of a class the prober does not know
C3_Witness ==
  /\ op.name = "ReadFile" /\ OnOpened /\ fs[op.filename].cls = "Other"
  /\ result = Unsupported /\ song.title = "Time" /\ song.disc = -1

\* C4: after ReadFile returned Success or Unsupported, track, disc, year,
\* original year, sample rate, bit depth, bitrate and last played are each
\* -1 or positive.
C4_SentinelOrPositive ==
  (op.name = "ReadFile" /\ result \in {Success, Unsupported}) => AllNormalized(song)

\* C4 witness: a used record with a negative disc, read into from a file
\* without audio properties and without a year
C4_Witness ==
  /\ op.name = "ReadFile" /\ ~op.fresh /\ result = Success
  /\ ~fs[op.filename].hasProps /\ fs[op.filename].tag.year = 0
  /\ song.disc = -1 /\ song.year = -1 /\ song.bitrate = -1

\* the last operation was a WriteFile with save_tags that saved
WroteTags == op.name = "WriteFile" /\ result = Success /\ op.request.save_tags

\* this step is a ReadFile of the file the last operation was on, and the
\* prober knows the format
ReadsBack == op'.name = "ReadFile" /\ op'.filename = op.filename /\ result' = Success

WrotePlaycountZero ==
  /\ result = Success
  /\ \/ op.name = "WriteFile" /\ op.request.save_playcount /\ op.request.metadata.playcount = 0
     \/ op.name = "SaveSongPlaycountToFile" /\ op.playcount = 0

\* this step is a ReadFile into a fresh record of the file the last
\* operation was on
ReadsBackFresh == ReadsBack /\ op'.fresh

\* the file keeps a count the write of 0 does not remove: an ASF attribute,
\* or one of several FMPS_Playcount frames of an ID3v2 tag
KeepsOldCount(file) ==
  \/ file.cls = "ASF"
  \/ \E i, j \in 1..Len(file.id3.frames) :
       /\ i # j
       /\ file.id3.frames[i].id = "TXXX" /\ file.id3.frames[i].desc = "FMPS_Playcount"
       /\ file.id3.frames[j].id = "TXXX" /\ file.id3.frames[j].desc = "FMPS_Playcount"

\* C6 (as the code has it): ReadFile into a fresh record right after
\* playcount 0 was written never yields -1: playcount is not among the
\* normalized fields and stays 0, the value of the fresh record, unless the
\* file keeps an older count the write does not remove.
C6_ZeroReadsAsZero ==
  [][(WrotePlaycountZero /\ ReadsBackFresh) =>
       /\ song'.playcount # -1
       /\ song'.playcount >= 0
       /\ ~KeepsOldCount(fs'[op.filename]) => song'.playcount = 0]_vars

\* C6 witness: the record read from an ID3v2 tag that holds the frame
\* FMPS_Playcount "0" and a POPM counter of 0 after the write
C6_Witness ==
  /\ op.name = "ReadFile" /\ op.fresh /\ result = Success /\ fs[ThePath].cls = "MPEG"
  /\ FindUserText(fs[ThePath].id3.frames, "FMPS_Playcount") > 0
  /\ fs[ThePath].id3.frames[FindUserText(fs[ThePath].id3.frames, "FMPS_Playcount")].vals = <<"0">>
  /\ ~KeepsOldCount(fs[ThePath])
  /\ song.playcount = 0

\* C6 as the specification words it: the record read back has playcount -1
C6_AsWorded ==
  [][(WrotePlaycountZero /\ ReadsBackFresh) => song'.playcount = -1]_vars

\* the band of a POPM byte: 0, 1-31, 32-95, 96-159, 160-223, 224-254, 255
BandOfByte(b) ==
  IF b <= 0 THEN 0
  ELSE IF b <= 31 THEN 1
  ELSE IF b <= 95 THEN 2
  ELSE IF b <= 159 THEN 3
  ELSE IF b <= 223 THEN 4
  ELSE IF b <= 254 THEN 5
  ELSE 6

\* the band of a rating: that of the byte that stands for it
Band(r) == BandOfByte(ConvertToPOPMRating(r))

\* the last operation wrote a rating to an ID3v2 tag and saved
WroteRatingToID3v2 ==
  /\ result = Success /\ op.filename \in DOMAIN fs
  /\ \/ op.name = "WriteFile" /\ op.request.save_rating /\ fs[op.filename].cls \in {"MPEG", "WAV"}
     \/ op.name = "SaveSongRatingToFile" /\ op.rating >= 0 /\ fs[op.filename].cls = "MPEG"

\* the rating the last operation wrote
WrittenRating == IF op.name = "WriteFile" THEN op.request.metadata.rating ELSE op.rating

\* C7: for each canonical rating 0, 0.1, 0.25, 0.5, 0.75, 0.9 and 1.0,
\* ReadFile into a fresh record right after the rating was written to an
\* ID3v2 tag yields a rating in the same POPM band.
C7_RatingBandRoundTrip ==
  [][(WroteRatingToID3v2 /\ WrittenRating \in Ratings /\ ReadsBackFresh) =>
       Band(song'.rating) = Band(WrittenRating)]_vars

\* C7 witness: 0.9 read back from an ID3v2 tag whose POPM byte is 255
C7_Witness ==
  /\ op.name = "ReadFile" /\ op.fresh /\ result = Success /\ song.rating = 90
  /\ HasFrame(fs[ThePath].id3.frames, "POPM")
  /\ FrontFrame(fs[ThePath].id3.frames, "POPM").rating = 255

\* the frames of a tag without their order: how often each occurs
FrameBag(frames) ==
  [f \in {frames[i] : i \in 1..Len(frames)} |->
     Cardinality({i \in 1..Len(frames) : frames[i] = f})]

\* what of a file belongs to its tags: not the timestamps, and not the
\* order of the ID3v2 frames
TagContent(file) ==
  [file EXCEPT !.mtime = [valid |-> FALSE, secs |-> 0], !.size = 0,
               !.id3.frames = FrameBag(@)]

\* C8 as the specification words it: a second WriteFile with the same
\* request leaves the tag content as the first left it, whatever the file
\* held before.
C8_Idempotent ==
  [][(op.name = "WriteFile" /\ result = Success /\ op' = op /\ result' = Success)
       => TagContent(fs'[op.filename]) = TagContent(fs[op.filename])]_vars

\* the artist or album artist of the record is "various artists" in any case
IsVariousArtists(sng) ==
  \/ ToLower(Utf8Decode(sng.artist)) = "various artists"
  \/ ToLower(Utf8Decode(sng.albumartist)) = "various artists"

\* the compilation string the format specific extraction stages for a file
Staged(file) ==
  ReadFormat(file, [disc |-> "", compilation |-> "", song |-> ReadGeneric(file, Input)]).compilation

\* C9 as the specification words it: with nothing staged, compilation is
\* true exactly when artist or album artist is "various artists" in any
\* case; with a staged string, exactly when it parses to 1.
C9_CompilationInference ==
  (op.name = "ReadFile" /\ OnOpened /\ fs[op.filename].cls # "MP4") =>
    IF Staged(fs[op.filename]) = ""
    THEN song.compilation <=> IsVariousArtists(song)
    ELSE song.compilation <=> (QToInt(Staged(fs[op.filename])) = 1)

\* C10: no operation opens more than one handle, and none is open once the
\* operation is over, whatever it returned.
C10_HandleReleased == opened <= 1 /\ live = 0

\* C10 witness: SaveEmbeddedArt opened a file it has no branch for
C10_Witness ==
  /\ op.name = "SaveEmbeddedArt" /\ result = Unsupported /\ opened = 1 /\ live = 0

\* C11 as the specification words it: once WriteFile has opened the handle
\* it calls save() exactly once, whatever the flags and the format, returns
\* FileSaveError exactly when that call fails and Success otherwise, and
\* never Unsupported; the file holds the mutations exactly when the save
\* went through.
C11_SaveOnce ==
  [][(op'.name = "WriteFile" /\ op'.filename \in DOMAIN fs /\ fs[op'.filename].open = "ok") =>
       /\ Len(saved') = 1
       /\ result' = FileSaveError <=> ~saved'[1]
       /\ result' = Success <=> saved'[1]
       /\ result' # Unsupported
       /\ TagContent(fs'[op'.filename]) =
            IF saved'[1] THEN TagContent(WriteTags(fs[op'.filename], op'.request))
            ELSE TagContent(fs[op'.filename])]_vars

\* the class of fields a stored key belongs to: each flag of WriteFile has
\* one, and what is neither a statistic nor a picture is a tag field
KeyClass(key) ==
  CASE key \in {"FMPS_PLAYCOUNT", "FMPS_Playcount", kMP4_FMPS_Playcount_ID, "FMPS/Playcount"} -> "playcount"
    [] key \in {"FMPS_RATING", "FMPS_Rating", kMP4_FMPS_Rating_ID, "FMPS/Rating"} -> "rating"
    [] key \in {"COVERART", "METADATA_BLOCK_PICTURE", "COVER ART (FRONT)", "APIC", "covr"} -> "cover"
    [] OTHER -> "tags"

\* what a file stores in the fields of one class.  A POPM frame holds two
\* classes: its counter is playcount, its byte is rating, and no frame is
\* the same as a frame that holds 0.
Stored(file, class) ==
  LET part(m) == [k \in {x \in DOMAIN m : KeyClass(x) = class} |-> m[k]]
      frameClass(f) == IF f.id = "TXXX" THEN KeyClass(f.desc) ELSE KeyClass(f.id)
      frames == file.id3.frames
      ofClass == {i \in 1..Len(frames) : frames[i].id # "POPM" /\ frameClass(frames[i]) = class}
      popm == IF HasFrame(frames, "POPM") THEN FrontFrame(frames, "POPM") ELSE Popm(0, 0)
  IN [xiph |-> part(file.xiph.fields), ape |-> part(file.ape.items),
      mp4 |-> part(file.mp4.items), asf |-> part(file.asf.attrs),
      id3 |-> [i \in ofClass |-> frames[i]],
      popm |-> CASE class = "playcount" -> popm.counter
                 [] class = "rating" -> popm.rating
                 [] OTHER -> 0,
      tag |-> IF class = "tags" THEN file.tag ELSE EmptyTag,
      pics |-> IF class = "cover" THEN file.pics ELSE <<>>]

\* the ID3v2 frames of a class in their order, whatever their positions
Packed(stored) ==
  LET at == DOMAIN stored.id3
      rank(i) == Cardinality({j \in at : j <= i})
  IN [stored EXCEPT !.id3 = [n \in 1..Cardinality(at) |-> stored.id3[CHOOSE i \in at : rank(i) = n]]]

\* the flag of a WriteFile request that opens a class of fields to writing
Gate(request, class) ==
  CASE class = "tags" -> request.save_tags
    [] class = "playcount" -> request.save_playcount
    [] class = "rating" -> request.save_rating
    [] class = "cover" -> request.save_cover

\* C12: a WriteFile that saved left every class of fields whose flag was
\* false as it was: the generic and format specific tag fields without
\* save_tags, the stored playcount without save_playcount, the stored
\* rating without save_rating, the pictures without save_cover; in every
\* format and whatever the other three flags are.
C12_FlagsGate ==
  [][(op'.name = "WriteFile" /\ result' = Success) =>
       \A class \in {"tags", "playcount", "rating", "cover"} :
         ~Gate(op'.request, class) =>
           Packed(Stored(fs'[op'.filename], class)) = Packed(Stored(fs[op'.filename], class))]_vars

\* C12 witness: a WriteFile with save_tags, save_rating and save_cover but
\* not save_playcount has rewritten an ID3v2 tag that holds a playcount
\* frame and a POPM counter
C12_Witness ==
  /\ op.name = "WriteFile" /\ result = Success /\ fs[ThePath].cls = "MPEG"
  /\ op.request.save_tags /\ op.request.save_rating /\ op.request.save_cover
  /\ ~op.request.save_playcount
  /\ FindUserText(fs[ThePath].id3.frames, "FMPS_Playcount") > 0
  /\ FindUserText(fs[ThePath].id3.frames, "FMPS_Rating") > 0
  /\ HasFrame(fs[ThePath].id3.frames, "TCOM")
  /\ Stored(fs[ThePath], "playcount").popm > 0

\* the numbers a file stores as playcount: the texts of its FMPS playcount
\* fields as numbers, and the counter of its POPM frame
StoredCounts(file) ==
  LET texts(m, key) == IF Has(m, key) THEN {m[key][i] : i \in 1..Len(m[key])} ELSE {}
      frames == file.id3.frames
  IN {QToInt(t) : t \in texts(file.xiph.fields, "FMPS_PLAYCOUNT") \cup texts(file.asf.attrs, "FMPS/Playcount")}
     \cup {QToInt(ApeToString(file.ape.items[k])) : k \in {"FMPS_PLAYCOUNT"} \cap DOMAIN file.ape.items}
     \cup {QToInt(Join(file.mp4.items[k].strs, "\n")) : k \in {kMP4_FMPS_Playcount_ID} \cap DOMAIN file.mp4.items}
     \cup {QToInt(frames[i].vals[1]) :
             i \in {j \in 1..Len(frames) : frames[j].id = "TXXX" /\ frames[j].desc = "FMPS_Playcount"}}
     \cup {frames[i].counter : i \in {j \in 1..Len(frames) : frames[j].id = "POPM"}}

\* C13 as the specification words it: after ReadFile into a fresh record
\* the rating lies in [0.0, 1.0], and the playcount is not negative and is
\* the default or a number the file stores, in every format and whatever
\* the file stores.
C13_StatsInRange ==
  (op.name = "ReadFile" /\ op.fresh /\ OnOpened) =>
    /\ song.rating >= 0 /\ song.rating <= 100
    /\ song.playcount >= 0
    /\ song.playcount \in {FreshSong.playcount} \cup StoredCounts(fs[op.filename])

\* the lookup of LoadEmbeddedArt finds no front cover with data in the file
NoUsableCover(file) == LoadOpened(file, "") = ""

\* C14 as the specification words it: LoadEmbeddedArt of a file that opens
\* and holds no usable front cover returns Success and leaves the output
\* data empty, in every format and whatever the buffer held before the call.
C14_NoCoverIsEmpty ==
  (op.name = "LoadEmbeddedArt" /\ OnOpened /\ NoUsableCover(fs[op.filename])) =>
    (result = Success /\ art = "")

\* the operation of a call run alone, in one piece, on a file system that
\* holds the file as it was when the call opened it
Alone(call) ==
  LET fsys == [p \in {call.filename} |-> call.base]
      saveOk == IF Len(call.saved) > 0 THEN call.saved[1] ELSE TRUE
  IN IF call.name = "WriteFile"
     THEN WriteFile(call.filename, call.request, fsys, CHOOSE now \in Clock : TRUE, 0, saveOk)
     ELSE SaveSongPlaycountToFile(call.filename, call.playcount, fsys,
                                  CHOOSE now \in Clock : TRUE, 0, saveOk)

\* C15: the steps of two calls interleave freely, and each call works on
\* its own copy of the tags.  A file changes only in the save step of a call
\* on that file; the Result of a call and what its save leaves in the file
\* are those of the operation run alone on the file as it was when the call
\* opened it, whatever was saved to the file in between: calls on different
\* files do not affect each other, and on the same file the later save
\* overwrites the update of the other call.
C15_Uncoordinated ==
  [][/\ \A p \in DOMAIN fs :
          fs'[p] # fs[p] =>
            \E c \in Callers : calls[c].pc = "mutated" /\ calls'[c].pc = "done" /\ calls[c].filename = p
     /\ \A c \in Callers :
          (calls[c].pc # "done" /\ calls'[c].pc = "done") =>
            /\ calls'[c].result = Alone(calls'[c]).result
            /\ calls'[c].saved = Alone(calls'[c]).saved
            /\ calls'[c].result = Success => fs'[calls[c].filename] = Alone(calls'[c]).fs[calls[c].filename]
            /\ calls'[c].result # Success => fs' = fs]_vars

\* C15 witness, a lost update: both calls are on the same file and both
\* returned Success, the one wrote playcount 2 and the other a rating, both
\* opened the file before either saved, and the file holds the rating and
\* the playcount it held before
C15_Witness ==
  \E c, o \in Callers :
    /\ c # o /\ calls[c].pc = "done" /\ calls[o].pc = "done"
    /\ calls[c].filename = ThePath /\ calls[o].filename = ThePath
    /\ calls[c].result = Success /\ calls[o].result = Success
    /\ calls[c].name = "WriteFile" /\ calls[c].request.save_playcount
    /\ calls[o].name = "WriteFile" /\ calls[o].request.save_rating
    /\ calls[c].base = calls[o].base
    /\ Stored(calls[c].fileref, "playcount") # Stored(calls[c].base, "playcount")
    /\ Stored(fs[ThePath], "playcount") = Stored(calls[c].base, "playcount")
    /\ Stored(fs[ThePath], "rating") = Stored(calls[o].fileref, "rating")

\* this step is a playcount write: WriteFile with save_playcount, or
\* SaveSongPlaycountToFile
WritesPlaycount ==
  \/ op'.name = "WriteFile" /\ op'.request.save_playcount
  \/ op'.name = "SaveSongPlaycountToFile"

\* the playcount this step writes
PlaycountWritten ==
  IF op'.name = "WriteFile" THEN op'.request.metadata.playcount ELSE op'.playcount

\* the file has a tag of one of the five formats with a playcount field:
\* Vorbis comment, APE, ID3v2, MP4, ASF
HasStatsTag(file) ==
  \/ file.cls \in {"FLAC", "WavPack", "APE", "MPC", "MPEG", "WAV"}
  \/ file.cls \in XiphTagClasses /\ file.hasTag
  \/ file.cls = "MP4" /\ file.mp4.present
  \/ file.cls = "ASF" /\ file.asf.present

\* the file holds no native playcount field: no FMPS playcount key in any
\* of its tags
NoPlaycountField(file) ==
  LET stored == Stored(file, "playcount")
  IN /\ DOMAIN stored.xiph = {} /\ DOMAIN stored.ape = {}
     /\ DOMAIN stored.mp4 = {} /\ DOMAIN stored.asf = {}
     /\ DOMAIN stored.id3 = {}

\* C16 as the specification words it: a playcount write that returned
\* Success, through WriteFile with save_playcount or through
\* SaveSongPlaycountToFile, leaves the playcount in the native playcount
\* field when it is greater than 0, and leaves no native playcount field
\* when it is 0; for Vorbis comments, APE, ID3v2, MP4 and ASF tags.
C16_PlaycountWrite ==
  [][(WritesPlaycount /\ result' = Success /\ op'.filename \in DOMAIN fs
        /\ HasStatsTag(fs[op'.filename])) =>
       /\ PlaycountWritten > 0 =>
            (~NoPlaycountField(fs'[op'.filename])
               /\ PlaycountWritten \in StoredCounts(fs'[op'.filename]))
       /\ PlaycountWritten = 0 => NoPlaycountField(fs'[op'.filename])]_vars

\* this step is a rating write: WriteFile with save_rating, or
\* SaveSongRatingToFile
WritesRating ==
  \/ op'.name = "WriteFile" /\ op'.request.save_rating
  \/ op'.name = "SaveSongRatingToFile"

\* the rating this step writes
RatingWritten ==
  IF op'.name = "WriteFile" THEN op'.request.metadata.rating ELSE op'.rating

\* the file holds no native rating field: no FMPS rating key in any of its
\* tags
NoRatingField(file) ==
  LET stored == Stored(file, "rating")
  IN /\ DOMAIN stored.xiph = {} /\ DOMAIN stored.ape = {}
     /\ DOMAIN stored.mp4 = {} /\ DOMAIN stored.asf = {}
     /\ DOMAIN stored.id3 = {}

\* the texts a file stores in its FMPS rating fields
StoredRatingTexts(file) ==
  LET stored == Stored(file, "rating")
      texts(m) == UNION {{m[k][i] : i \in 1..Len(m[k])} : k \in DOMAIN m}
  IN texts(stored.xiph) \cup texts(stored.asf)
     \cup {ApeToString(stored.ape[k]) : k \in DOMAIN stored.ape}
     \cup {Join(stored.mp4[k].strs, "\n") : k \in DOMAIN stored.mp4}
     \cup {stored.id3[i].vals[1] : i \in DOMAIN stored.id3}

\* C17 as the specification words it: a rating write that returned Success,
\* through WriteFile with save_rating or through SaveSongRatingToFile,
\* leaves the rating in the native rating field when it is greater than 0
\* and leaves no native rating field when it is 0 or less, for Vorbis
\* comments, APE and ID3v2 tags; for MP4 and ASF tags it leaves the given
\* rating in the field whatever its value.
C17_RatingWrite ==
  [][(WritesRating /\ result' = Success /\ op'.filename \in DOMAIN fs
        /\ HasStatsTag(fs[op'.filename])) =>
       LET text == QStringToTagLibString(FloatNumber(RatingWritten))
           after == fs'[op'.filename]
       IN IF after.cls \in {"MP4", "ASF"} THEN text \in StoredRatingTexts(after)
          ELSE /\ RatingWritten > 0 => text \in StoredRatingTexts(after)
               /\ RatingWritten <= 0 => NoRatingField(after)]_vars

\* the number in the first value of the user-text frame of a description,
\* 0 without such a frame
UserTextNumber(frames, desc, parse(_)) ==
  LET i == FindUserText(frames, desc)
  IN IF i > 0 /\ Len(frames[i].vals) > 0 THEN parse(frames[i].vals[1]) ELSE 0

\* the front POPM frame of a tag, one with counter 0 and rating 0 without
FrontPopm(frames) == IF HasFrame(frames, "POPM") THEN FrontFrame(frames, "POPM") ELSE Popm(0, 0)

\* C18: a ReadFile applies the stored playcount and the stored rating only
\* to a record whose value is 0 or less: a record that comes with a
\* positive playcount or rating keeps it in every format.  In an ID3v2 tag
\* the user-text frames are looked at before the POPM frame: when the tag
\* holds FMPS_Playcount with a positive number and a POPM frame with a
\* positive counter the record takes the number of the user-text frame, and
\* when it holds FMPS_Rating with a rating in (0, 1] and a POPM frame with
\* a positive byte the record takes the rating of the user-text frame.
C18_FirstSourceWins ==
  (op.name = "ReadFile" /\ OnOpened /\ result = Success) =>
    LET frames == fs[op.filename].id3.frames
        count == UserTextNumber(frames, "FMPS_Playcount", QToInt)
        rating == UserTextNumber(frames, "FMPS_Rating", QToFloat)
        id3 == fs[op.filename].cls \in {"MPEG", "WAV"}
    IN /\ Input.playcount > 0 => song.playcount = Input.playcount
       /\ Input.rating > 0 => song.rating = Input.rating
       /\ (id3 /\ Input.playcount <= 0 /\ count > 0 /\ FrontPopm(frames).counter > 0) =>
            song.playcount = count
       /\ (id3 /\ Input.rating <= 0 /\ rating > 0 /\ rating <= 100 /\ FrontPopm(frames).rating > 0) =>
            song.rating = rating

\* C18 witness: a fresh record read from a WAV file whose ID3v2 tag holds
\* FMPS_Playcount 2 and FMPS_Rating 0.5 next to a POPM frame with counter 7
\* and byte 128 has playcount 2 and rating 0.5
C18_Witness ==
  /\ op.name = "ReadFile" /\ op.fresh /\ result = Success /\ fs[ThePath].cls = "WAV"
  /\ FrontPopm(fs[ThePath].id3.frames).counter = 7
  /\ ConvertPOPMRating(FrontPopm(fs[ThePath].id3.frames).rating) = 60
  /\ UserTextNumber(fs[ThePath].id3.frames, "FMPS_Playcount", QToInt) = 2
  /\ UserTextNumber(fs[ThePath].id3.frames, "FMPS_Rating", QToFloat) = 50
  /\ song.playcount = 2 /\ song.rating = 50

\* the last operation was a ReadFile that went through the Vorbis comment
\* of the file
ReadVorbisComment ==
  /\ op.name = "ReadFile" /\ OnOpened /\ result = Success
  /\ fs[op.filename].cls \in {"FLAC"} \cup XiphTagClasses
  /\ fs[op.filename].xiph.present

\* the record holds in the field of an alias pair what the key holds (the
\* year as the number ReadFile makes of the text)
TakenFrom(key, sng, map) ==
  CASE key \in {"CONTENT GROUP", "GROUPING"} -> sng.grouping = AssignTagLibStringToStdString(map[key][1])
    [] key \in {"ALBUMARTIST", "ALBUM ARTIST"} -> sng.albumartist = AssignTagLibStringToStdString(map[key][1])
    [] key = "ORIGINALDATE" -> sng.originalyear = Unset(QToInt(Left(map[key][1], 4)))
    [] key = "ORIGINALYEAR" -> sng.originalyear = Unset(QToInt(map[key][1]))
    [] key \in {"LYRICS", "UNSYNCEDLYRICS"} -> sng.lyrics = AssignTagLibStringToStdString(map[key][1])

\* C19 (as the code has it): of two alias keys of a Vorbis comment the
\* record takes the preferred one, GROUPING, ALBUMARTIST, ORIGINALDATE or
\* LYRICS, whenever it is present, and the other one only when the
\* preferred one is absent.  ALBUMARTIST, ORIGINALDATE and LYRICS are read
\* first and close the legacy key; CONTENT GROUP is read first and GROUPING,
\* read after it, overwrites it.
C19_PreferredAliasWins ==
  ReadVorbisComment =>
    LET map == fs[op.filename].xiph.fields
    IN \A pair \in AliasPairs :
         LET preferred == IF pair[1] = "CONTENT GROUP" THEN pair[2] ELSE pair[1]
             other == IF pair[1] = "CONTENT GROUP" THEN pair[1] ELSE pair[2]
         IN /\ Has(map, preferred) => TakenFrom(preferred, song, map)
            /\ (~Has(map, preferred) /\ Has(map, other)) => TakenFrom(other, song, map)

\* C19 witness: a record read from a Vorbis comment that holds CONTENT GROUP
\* and GROUPING with different values has the value of GROUPING
C19_Witness ==
  /\ ReadVorbisComment
  /\ Has(fs[ThePath].xiph.fields, "CONTENT GROUP") /\ Has(fs[ThePath].xiph.fields, "GROUPING")
  /\ fs[ThePath].xiph.fields["CONTENT GROUP"] # fs[ThePath].xiph.fields["GROUPING"]
  /\ TakenFrom("GROUPING", song, fs[ThePath].xiph.fields)

\* C19 as the specification words it: with both keys of a pair present the
\* record takes the key that is first in the read order, for all four pairs
C19_AsWorded ==
  ReadVorbisComment =>
    LET map == fs[op.filename].xiph.fields
    IN \A pair \in AliasPairs :
         (Has(map, pair[1]) /\ Has(map, pair[2])) => TakenFrom(pair[1], song, map)

\* the last operation was a WriteFile with save_tags that saved a FLAC or
\* Ogg file: the Vorbis comment write routine has run
WroteVorbisComment ==
  /\ op.name = "WriteFile" /\ op.request.save_tags /\ result = Success
  /\ op.filename \in DOMAIN fs
  /\ fs[op.filename].cls \in {"FLAC"} \cup XiphTagClasses

\* C20 as the specification words it: after the Vorbis comment write
\* routine has run, the comment block holds none of the deprecated alias
\* keys ALBUM ARTIST, UNSYNCEDLYRICS and CONTENT GROUP, and a ReadFile right
\* after it yields the album artist, the lyrics and the grouping that were
\* written, an empty one included.
C20_NoStaleAlias ==
  /\ [](WroteVorbisComment =>
         \A key \in {"ALBUM ARTIST", "UNSYNCEDLYRICS", "CONTENT GROUP"} :
           ~Has(fs[op.filename].xiph.fields, key))
  /\ [][(WroteVorbisComment /\ ReadsBackFresh /\ result' = Success) =>
          /\ song'.albumartist = op.request.metadata.albumartist
          /\ song'.lyrics = op.request.metadata.lyrics
          /\ song'.grouping = op.request.metadata.grouping]_vars

\* the frames of an identifier in a tag, in their order
FramesOf(id) == SelectFrames(fs[ThePath].id3.frames, id)

\* this step is a rewrite of the text frames of an identifier
RewritesText == op'.name \in {"SetTextFrame", "SetUnsyncLyricsFrame"}

\* C21: SetTextFrame and SetUnsyncLyricsFrame on a tag with n frames of the
\* identifier: an empty value leaves none of them; another value leaves
\* max(n, 1) of them, the first with the new text and the others as they
\* were, the first of them with its encoding and description as before;
\* the frames of every other identifier are as they were.
C21_TextFrameRewrite ==
  [][RewritesText =>
       LET id == op'.id
           before == FramesOf(id)
           after == SelectFrames(fs'[ThePath].id3.frames, id)
           n == Len(before)
       IN /\ op'.value = "" => Len(after) = 0
          /\ op'.value # "" =>
               /\ Len(after) = (IF n > 1 THEN n ELSE 1)
               /\ after[1].vals = <<op'.value>>
               /\ n > 0 => after[1] = [before[1] EXCEPT !.vals = <<op'.value>>]
               /\ \A i \in 2..n : after[i] = before[i]
          /\ RemoveFrames(fs'[ThePath].id3.frames, id) = RemoveFrames(fs[ThePath].id3.frames, id)]_vars

\* C21 witness: a SetTextFrame with a value on a tag that held several
\* frames of the identifier: as many as before, the new text in the first
C21_Witness ==
  /\ op.name = "SetTextFrame" /\ op.value = "New"
  /\ Len(FramesOf(op.id)) = MaxDup
  /\ FramesOf(op.id)[1].vals = <<"New">> /\ FramesOf(op.id)[1].enc = "Latin1"
  /\ FramesOf(op.id)[2].vals = <<"Old2">>

\* this step rewrites a user-text frame: SetUserTextFrame itself, or the
\* SetPlaycount or SetRating that calls it
RewritesUserText == op'.name \in {"SetUserTextFrame", "SetPlaycount", "SetRating"}

\* the description this step rewrites
DescriptionWritten ==
  CASE op'.name = "SetPlaycount" -> "FMPS_Playcount"
    [] op'.name = "SetRating" -> "FMPS_Rating"
    [] OTHER -> op'.id

\* the positions of the user-text frames with a description
UserTextFrames(frames, description) ==
  {i \in 1..Len(frames) : frames[i].id = "TXXX" /\ frames[i].desc = description}

\* C22 as the specification words it: after the rewrite of the user-text
\* frame of a description the tag holds exactly one user-text frame with
\* that description, and a lookup by the description finds the new value,
\* whatever the tag held before.
C22_OneUserTextFrame ==
  [][RewritesUserText =>
       LET frames == fs'[ThePath].id3.frames
       IN /\ Cardinality(UserTextFrames(frames, DescriptionWritten)) = 1
          /\ frames[FindUserText(frames, DescriptionWritten)].vals = <<op'.value>>]_vars

\* this step is a cover write that saved: WriteFile with save_cover, or
\* SaveEmbeddedArt
WritesCover ==
  /\ result' = Success /\ op'.filename \in DOMAIN fs
  /\ \/ op'.name = "WriteFile" /\ op'.request.save_cover
     \/ op'.name = "SaveEmbeddedArt"

\* the pictures a FLAC, Ogg or ID3v2 container holds: type and bytes of
\* the entries of the picture list, or of the APIC frames
PicturesOf(file) ==
  IF file.cls \in {"MPEG", "WAV"}
  THEN [i \in 1..Len(SelectFrames(file.id3.frames, "APIC")) |->
          [type |-> SelectFrames(file.id3.frames, "APIC")[i].ptype,
           data |-> SelectFrames(file.id3.frames, "APIC")[i].vals[1]]]
  ELSE [i \in 1..Len(file.pics) |-> [type |-> file.pics[i].type, data |-> file.pics[i].data]]

\* the file is a FLAC, Ogg or ID3v2 container the cover writers reach
PictureContainer(file) ==
  \/ file.cls \in {"FLAC", "MPEG", "WAV"}
  \/ file.cls \in XiphTagClasses /\ file.hasTag

\* C23: a cover write that saved a FLAC, Ogg or ID3v2 container leaves in
\* it, whatever pictures it held before, exactly one picture, of type
\* FrontCover and with the given bytes, when the data is not empty, and no
\* picture when the data is empty; so no sequence of cover writes leaves
\* more than one picture.
C23_OneCover ==
  [][(WritesCover /\ PictureContainer(fs[op'.filename])) =>
       PicturesOf(fs'[op'.filename]) =
         IF op'.request.cover.data = "" THEN <<>>
         ELSE <<[type |-> "FrontCover", data |-> op'.request.cover.data]>>]_vars

\* C23 witness: the first cover write on the FLAC file that came with two
\* pictures has left one front cover with the new bytes
C23_Witness ==
  /\ op.name = "SaveEmbeddedArt" /\ result = Success /\ saves = 1
  /\ fs[ThePath].cls = "FLAC" /\ Has(fs[ThePath].xiph.fields, "CONTENT GROUP")
  /\ op.request.cover.data = "GIF"
  /\ PicturesOf(fs[ThePath]) = <<[type |-> "FrontCover", data |-> "GIF"]>>

\* this step is a cover write on an MP4 file that TagLib opened and that
\* has a tag
WritesCoverMP4 ==
  /\ op'.filename \in DOMAIN fs /\ fs[op'.filename].open = "ok"
  /\ fs[op'.filename].cls = "MP4" /\ fs[op'.filename].mp4.present
  /\ \/ op'.name = "WriteFile" /\ op'.request.save_cover
     \/ op'.name = "SaveEmbeddedArt"

\* the "covr" item of an MP4 tag as a sequence: empty when there is none
CovrOf(file) == IF Has(file.mp4.items, "covr") THEN <<file.mp4.items["covr"]>> ELSE <<>>

\* C24: a cover write on an MP4 file reports no error of its own: the
\* operation returns Success exactly when the save went through.  When it
\* did, the "covr" item is removed for empty data, holds exactly the one new
\* cover for image/jpeg and image/png, and is as it was before, present or
\* absent, for data of any other MIME type.
C24_MP4CoverMime ==
  [][WritesCoverMP4 =>
       LET cover == op'.request.cover
           after == CovrOf(fs'[op'.filename])
       IN /\ Len(saved') = 1
          /\ result' = (IF saved'[1] THEN Success ELSE FileSaveError)
          /\ result' = Success =>
               CASE cover.data = "" -> after = <<>>
                 [] cover.data # "" /\ cover.mime_type = "image/jpeg" ->
                      after = <<Mp4Covers(<<[format |-> "JPEG", data |-> cover.data]>>)>>
                 [] cover.data # "" /\ cover.mime_type = "image/png" ->
                      after = <<Mp4Covers(<<[format |-> "PNG", data |-> cover.data]>>)>>
                 [] OTHER -> after = CovrOf(fs[op'.filename])]_vars

\* C24 witness: SaveEmbeddedArt with GIF data returned Success on an MP4
\* file that still holds the PNG cover it came with
C24_Witness ==
  /\ op.name = "SaveEmbeddedArt" /\ result = Success /\ saved = <<TRUE>>
  /\ op.request.cover = [data |-> "GIF", mime_type |-> "image/gif"]
  /\ fs[ThePath].cls = "MP4" /\ saves = 1
  /\ CovrOf(fs[ThePath]) = <<Mp4Covers(<<[format |-> "PNG", data |-> "PNG"]>>)>>

\* this step is a WriteFile with save_tags that saved an MP4 file with a tag
WritesTagsMP4 ==
  /\ op'.name = "WriteFile" /\ op'.request.save_tags /\ result' = Success
  /\ op'.filename \in DOMAIN fs /\ fs[op'.filename].cls = "MP4"
  /\ fs[op'.filename].mp4.present

\* C25: WriteFile with save_tags on an MP4 file writes the "disk" item with
\* 0 exactly when the record's disc is 0 or less, -1 and 0 alike, and with
\* the disc number when it is positive, whatever the item held before; the
\* number written is never negative.
C25_MP4DiscWritten ==
  [][WritesTagsMP4 =>
       LET disc == op'.request.metadata.disc
           items == fs'[op'.filename].mp4.items
       IN /\ Has(items, "disk")
          /\ items["disk"] = Mp4Int(IF disc <= 0 THEN 0 ELSE disc)
          /\ items["disk"].n >= 0
          /\ items["disk"].n = 0 <=> disc <= 0]_vars

\* C25 witness: a record with disc -1 was written to the MP4 file that held
\* disc 2, and the item now holds 0
C25_Witness ==
  /\ op.name = "WriteFile" /\ op.request.save_tags /\ result = Success
  /\ op.request.metadata.disc = 0 - 1 /\ saves = 1
  /\ fs[ThePath].cls = "MP4" /\ Has(fs[ThePath].mp4.items, "covr")
  /\ fs[ThePath].mp4.items["disk"] = Mp4Int(0)

\* the POPM frames of a tag, in tag order
PopmFrames(frames) == SelectSeq(frames, LAMBDA f : f.id = "POPM")

\* the rating byte and the counter a tag's POPM frame holds; a tag without
\* the frame stands for the 0 and 0 a new frame starts with
PopmRating(frames) == IF PopmFrames(frames) = <<>> THEN 0 ELSE PopmFrames(frames)[1].rating
PopmCounter(frames) == IF PopmFrames(frames) = <<>> THEN 0 ELSE PopmFrames(frames)[1].counter

\* C26: on an ID3v2 tag with at most one POPM frame, every playcount or
\* rating write leaves exactly one POPM frame.  A playcount write sets its
\* counter to the playcount and leaves its rating byte as it was; a rating
\* write sets its rating byte to the converted rating and leaves the counter
\* as it was; every other frame rewrite leaves the POPM frames alone.  So
\* after any sequence of writes the counter is the last playcount written
\* and the rating byte is the conversion of the last rating written.
C26_OnePopmFrame ==
  [][LET before == fs[ThePath].id3.frames
         after == fs'[ThePath].id3.frames
     IN Len(PopmFrames(before)) <= 1 =>
          CASE op'.name = "SetPlaycount" ->
                 /\ Len(PopmFrames(after)) = 1
                 /\ PopmCounter(after) = op'.playcount
                 /\ PopmRating(after) = PopmRating(before)
            [] op'.name = "SetRating" ->
                 /\ Len(PopmFrames(after)) = 1
                 /\ PopmRating(after) = ConvertToPOPMRating(op'.rating)
                 /\ PopmCounter(after) = PopmCounter(before)
            [] OTHER -> PopmFrames(after) = PopmFrames(before)]_vars

\* C26 witness: a rating write after a playcount write on a tag that had no
\* POPM frame: one frame, with the counter of the earlier write in it
C26_Witness ==
  /\ op.name = "SetRating" /\ op.rating = 50 /\ saves = 2
  /\ ~HasFrame(fs[ThePath].id3.frames, "TPOS")
  /\ PopmFrames(fs[ThePath].id3.frames) = <<[Frame("POPM", "", <<>>, "") EXCEPT !.rating = 128, !.counter = 7]>>

\* a record with its six housekeeping fields put back to those of another
WithHousekeepingOf(sng, other) ==
  [sng EXCEPT !.basefilename = other.basefilename, !.url = other.url,
              !.filesize = other.filesize, !.mtime = other.mtime,
              !.ctime = other.ctime, !.lastseen = other.lastseen]

\* C27: after ReadFile returned FileOpenError the record has its basename,
\* URL, file size, mtime, ctime and last-seen time set from the file and
\* the clock, and every other field - the valid flag, the filetype, the
\* audio properties, the tag fields - is as the caller handed it in, not
\* normalized to -1 either; after FilenameMissing and FileDoesNotExist the
\* whole record is as it was handed in.
C27_ErrorLeavesRecord ==
  op.name = "ReadFile" =>
    /\ result \in {FilenameMissing, FileDoesNotExist} => song = Input
    /\ result = FileOpenError =>
         LET file == fs[op.filename]
         IN /\ song.basefilename = "a"
            /\ song.url = "file://" \o op.filename
            /\ song.filesize = file.size
            /\ song.mtime = (IF file.mtime.valid /\ file.mtime.secs > 0 THEN file.mtime.secs ELSE 0)
            /\ song.ctime = song.mtime
            /\ song.lastseen \in Clock
            /\ WithHousekeepingOf(song, Input) = Input

\* C27 witness: ReadFile of a file that could not be opened at all, into a
\* used record: the file's size and times are in the record, the disc of
\* the record is the -4 it came with
C27_Witness ==
  /\ op.name = "ReadFile" /\ ~op.fresh /\ result = FileOpenError
  /\ fs[ThePath].open = "nullptr"
  /\ song.filesize = 9 /\ song.mtime = 5 /\ song.lastseen = 8
  /\ song.disc = 0 - 4 /\ song.filetype = UNKNOWN /\ ~song.valid

\* the embedded-art flag ReadFile leaves in a fresh record for the file
FlagRead(file) ==
  ReadFile(ThePath, FreshSong, [p \in {ThePath} |-> file], CHOOSE now \in Clock : TRUE, 0).song.art_embedded

\* the data LoadEmbeddedArt leaves in an empty buffer for the file
ArtLoaded(file) == LoadEmbeddedArt(ThePath, "", [p \in {ThePath} |-> file], 0).art

\* C28 as the specification words it: for a file that opens, in every
\* format and with every tag content, ReadFile sets the embedded-art flag
\* exactly when LoadEmbeddedArt on the same file returns data that is not
\* empty.
C28_CoverAgreement ==
  fs[ThePath].open = "ok" => (FlagRead(fs[ThePath]) <=> ArtLoaded(fs[ThePath]) # "")

\* two outcomes of a write on the file: the same Result and the same tag
\* content left in the file
SameOutcome(a, b) ==
  a.result = b.result /\ TagContent(a.fs[ThePath]) = TagContent(b.fs[ThePath])

\* WriteFile on the file with one flag set
WriteFileOnly(request, saveOk) ==
  WriteFile(ThePath, request, fs, CHOOSE now \in Clock : TRUE, 0, saveOk)

PlaycountAsWriteFile(n, saveOk) ==
  SameOutcome(SaveSongPlaycountToFile(ThePath, n, fs, CHOOSE now \in Clock : TRUE, 0, saveOk),
              WriteFileOnly(Request([FreshSong EXCEPT !.playcount = n], FALSE, TRUE, FALSE, FALSE, NoCover),
                            saveOk))

RatingAsWriteFile(r, saveOk) ==
  SameOutcome(SaveSongRatingToFile(ThePath, r, fs, CHOOSE now \in Clock : TRUE, 0, saveOk),
              WriteFileOnly(Request([FreshSong EXCEPT !.rating = r], FALSE, FALSE, TRUE, FALSE, NoCover),
                            saveOk))

CoverAsWriteFile(c, saveOk) ==
  LET request == Request(FreshSong, FALSE, FALSE, FALSE, TRUE, c)
  IN SameOutcome(SaveEmbeddedArt(ThePath, request, fs, CHOOSE now \in Clock : TRUE, 0, saveOk),
                 WriteFileOnly(request, saveOk))

\* C29 as the specification words it: on every file, SaveSongPlaycountToFile,
\* SaveSongRatingToFile and SaveEmbeddedArt return the Result and leave the
\* tag content that WriteFile returns and leaves with only the playcount,
\* the rating or the cover flag set and the same value.
C29_DedicatedAsWriteFile ==
  \A saveOk \in BOOLEAN :
    /\ \A n \in Playcounts : PlaycountAsWriteFile(n, saveOk)
    /\ \A r \in {0, 50} : RatingAsWriteFile(r, saveOk)
    /\ \A c \in Covers : CoverAsWriteFile(c, saveOk)

\* the last operation was a WriteFile with save_tags that saved a file of a
\* format with a tag writer of its own, with the tag the writer writes to
WroteFormatTags ==
  /\ WroteTags /\ op.filename \in DOMAIN fs
  /\ LET file == fs[op.filename]
     IN \/ file.cls \in {"FLAC"} \cup XiphTagClasses /\ file.xiph.present
        \/ file.cls \in {"WavPack", "APE", "MPC"} /\ file.ape.present
        \/ file.cls \in {"MPEG", "WAV"} /\ file.id3.present
        \/ file.cls = "MP4" /\ file.mp4.present

\* a string field read back is the one written, empty ones included
StringBack(field) == song'[field] = op.request.metadata[field]

\* C30 as the specification words it: ReadFile into a fresh record right
\* after WriteFile with save_tags, on a Vorbis comment, APE, ID3v2 or MP4
\* tag, yields the album artist, composer, grouping, performer and lyrics
\* that were written, empty ones as empty; the disc that was written when
\* it is positive and -1 when it is not; and the compilation flag that
\* was written - whatever the tag held before.
C30_FormatTagsRoundTrip ==
  [][(WroteFormatTags /\ ReadsBackFresh) =>
       LET m == op.request.metadata
       IN /\ \A field \in {"albumartist", "composer", "grouping", "performer", "lyrics"} :
               StringBack(field)
          /\ song'.disc = (IF m.disc > 0 THEN m.disc ELSE 0 - 1)
          /\ song'.compilation = m.compilation]_vars

====
